---- MODULE Spec2Model ----
(***************************************************************************)
(* Model of the local weather-station store (routes/weatherProviders/      *)
(* local.ts, latest revision of the file) and of the hybrid composers      *)
(* (hybrid-providers/BaseHybridProvider.ts and its adapters, hybrid.ts).   *)
(*                                                                         *)
(* Conventions                                                             *)
(*   - time is in seconds since the epoch, as in the code;                 *)
(*   - every measurement is a fixed-point number with three decimals       *)
(*     (the integer 150 is 0.150), so 0.10, 0.15 and 0.02 inch are 100,    *)
(*     150 and 20;                                                         *)
(*   - a value that may be undefined is a sequence: <<>> is undefined,     *)
(*     <<v>> is the number v;                                              *)
(*   - a mean value is the pair <<sum, count>>.                            *)
(***************************************************************************)
EXTENDS Integers, Sequences, FiniteSets, TLC

VARIABLES
    clock,          \* Date.now() in seconds
    queue,          \* local.ts: var queue, newest observation first
    lastRainEpoch,  \* local.ts: var lastRainEpoch
    lastRainCount,  \* local.ts: var lastRainCount
    disk,           \* the file observations.json
    nextSave,       \* when the setInterval timer of saveQueue fires next
    req,            \* the request or timer event handled last
    resp,           \* what that handler returned or threw
    wuLog,          \* the captureWUStream calls of this process, newest first
    cachedView,     \* the composer's cached series, one per (coords, provider)
    flights,        \* the compositions under way, one per (coords, provider)
    served,         \* the adjustment views handed to callers, newest first
    boots,          \* how often the process has been started again
    geoCache,       \* Geocoder: cache, per location name
    geoCalls,       \* the geocodeLocation calls that have not returned yet
    geoLog          \* the getLocation calls that have ended, oldest first

\* the state of the composer's cache
composer == <<cachedView, flights, served>>

\* the state of the Geocoder
geocoder == <<geoCache, geoCalls, geoLog>>

vars == <<clock, queue, lastRainEpoch, lastRainCount, disk, nextSave, req, resp, wuLog,
          composer, boots, geocoder>>

\* the location names of the requests
Locations == {"Boston", "Nowhere"}

\* the Geocoder after its constructor, with no geocoderCache.json
\* (part_001 23-27): <<>> stands for a name the Map does not have
InitGeocoder ==
    /\ geoCache = [n \in Locations |-> <<>>]
    /\ geoCalls = {}
    /\ geoLog = <<>>

\* no view is cached, none is being composed
InitComposer ==
    /\ cachedView = {}
    /\ flights = {}
    /\ served = <<>>

----------------------------------------------------------------------------
(* Bounds of the model *)

MaxIngest == 3          \* captureWUStream calls per run
RainMaxSteps == 2       \* clock steps in the rain-counter runs
StoreMaxSteps == 6     \* clock steps in the store runs
HybridMaxSteps == 2     \* clock steps in the composer runs
MaxForecastDays == 7    \* days an upstream forecast carries
DaysMaxSteps == 1       \* clock steps in the day-bucket runs
HistoryDays == 9        \* days back the persisted file of a run reaches
ViewMaxSteps == 2       \* clock steps in the current-weather runs
CacheMaxSteps == 2      \* clock steps in the cache runs
CacheMaxIngest == 1     \* ingests in the cache runs
MaxRequests == 3        \* adjustment-view requests in the cache runs
BucketMaxSteps == 1     \* clock steps in the bucket runs
BucketMaxIngest == 2    \* ingests in the bucket runs
GeoMaxCalls == 4        \* getLocation calls per run
NormMaxDays == 2        \* days in the input of the normalizer runs
PersistMaxSteps == 2    \* clock steps in the persistence runs
MaxBoots == 1           \* process starts after the first in the persistence runs

----------------------------------------------------------------------------
(* Units and values *)

Milli == 1000                       \* fixed-point scale of a measurement
HOUR == 60 * 60
DAY == 24 * 60 * 60
Epoch0 == 20 * DAY                  \* the clock when the process starts

Absent == <<>>
Some(v) == <<v>>
Has(x) == x # <<>>
Val(x) == x[1]


\* Number.POSITIVE_INFINITY, written as an integer no measurement reaches,
\* and the value null, written as an integer that is no number
Infinity == 1000000 * Milli
Null == 0 - Infinity - 1

\* A query parameter as it arrives: no such key, a text parseFloat turns into
\* NaN, a text parseFloat turns into the number v, or a text such as
\* "Infinity" or "1e999" that parseFloat turns into Infinity.
Missing == [v |-> 0, k |-> "missing"]
Text == [v |-> 0, k |-> "text"]
Num(n) == [v |-> n, k |-> "num"]
Inf == [v |-> 0, k |-> "inf"]

\* -9999.0, the value a station sends for a sensor it does not have
NoSensor == (0 - 9999) * Milli

LOCAL_OBSERVATION_DAYS == 7

\* setInterval( saveQueue, 1000 * 60 * 30 ), in seconds
SaveInterval == 30 * 60

\* local.ts getMeasurement: the number, or undefined when the key is
\* missing, parseFloat gives NaN, or the value is -9999.0
getMeasurement(raw) ==
    CASE raw.k = "num" /\ raw.v # NoSensor -> Some(raw.v)
      [] raw.k = "inf" -> Some(Infinity)
      [] OTHER -> Absent

\* dateutc: the literal "now", or a UTC time string
NowDate == [v |-> 0, k |-> "now"]
UtcDate(t) == [v |-> t, k |-> "utc"]

WUQuery(d, t, h, w, s, dr, r) ==
    [dateutc |-> d, tempf |-> t, humidity |-> h, windspeedmph |-> w,
     solarradiation |-> s, dailyrainin |-> dr, rainin |-> r]

----------------------------------------------------------------------------
(* captureWUStream *)

\* the interval rain without the reset branch
IntervalRain_NoReset(rainCount, last) ==
    IF Has(rainCount) THEN Some(Val(rainCount) - last) ELSE Absent

\* the interval rain with the reset taken on an equal value too
IntervalRain_ResetOnEqual(rainCount, last) ==
    IF Has(rainCount)
    THEN IF Val(rainCount) <= last THEN rainCount ELSE Some(Val(rainCount) - last)
    ELSE Absent

\* the interval rain of an ingest (local.ts 455-463)
IntervalRain(rainCount, last) ==
    IF Has(rainCount)
    THEN IF Val(rainCount) < last THEN rainCount ELSE Some(Val(rainCount) - last)
    ELSE Absent

\* the counter forgotten by an ingest without dailyrainin
NextRainCount_Forget(rainCount, last) ==
    IF Has(rainCount) THEN Val(rainCount) ELSE 0

\* the counter after an ingest (local.ts 479-482)
NextRainCount(rainCount, last) ==
    IF Has(rainCount) THEN Val(rainCount) ELSE last

\* the observation an ingest stores (local.ts 465-472)
MakeObservation(q, now, last) ==
    LET solarRadiation == getMeasurement(q.solarradiation)
    IN  [humidity |-> getMeasurement(q.humidity),
         solarRadiation |-> IF Has(solarRadiation)
                            THEN Some((Val(solarRadiation) * 24) \div 1000)
                            ELSE Absent,
         timestamp |-> IF q.dateutc.k = "now" THEN now ELSE q.dateutc.v,
         temp |-> getMeasurement(q.tempf),
         windSpeed |-> getMeasurement(q.windspeedmph),
         precip |-> IntervalRain(getMeasurement(q.dailyrainin), last)]

captureWUStream(q) ==
    LET obs == MakeObservation(q, clock, lastRainCount)
        rainin == getMeasurement(q.rainin)
        newCount == NextRainCount(getMeasurement(q.dailyrainin), lastRainCount)
    IN  /\ Len(wuLog) < MaxIngest
        /\ lastRainEpoch' = IF Has(rainin) /\ Val(rainin) > 0
                            THEN obs.timestamp ELSE lastRainEpoch
        /\ lastRainCount' = newCount
        /\ queue' = <<obs>> \o queue
        /\ req' = [op |-> "captureWUStream", query |-> q]
        /\ resp' = [status |-> "ok", body |-> "success\n"]
        /\ wuLog' = <<[obs |-> obs,
                       query |-> q,
                       before |-> lastRainCount,
                       after |-> newCount]>> \o wuLog
        /\ UNCHANGED <<clock, disk, nextSave, composer, boots, geocoder>>

\* time passes, up to the moment the saveQueue timer is due
Advance(d, limit) ==
    /\ clock + d <= Epoch0 + limit
    /\ clock + d <= nextSave
    /\ clock' = clock + d
    /\ req' = [op |-> "advance", by |-> d]
    /\ resp' = [status |-> "none"]
    /\ UNCHANGED <<queue, lastRainEpoch, lastRainCount, disk, nextSave, wuLog, composer, boots, geocoder>>

Init ==
    /\ clock = Epoch0
    /\ queue = <<>>
    /\ lastRainEpoch = 0
    /\ lastRainCount = 0
    /\ disk = [exists |-> FALSE, valid |-> TRUE, content |-> <<>>]
    /\ nextSave = Epoch0 + SaveInterval
    /\ req = [op |-> "start"]
    /\ resp = [status |-> "none"]
    /\ wuLog = <<>>
    /\ InitComposer
    /\ boots = 0
    /\ InitGeocoder

----------------------------------------------------------------------------
(* Results and errors *)

Ok(data) == [status |-> "ok", data |-> data, code |-> ""]
Throw(code) == [status |-> "error", data |-> <<>>, code |-> code]

\* ErrorCode.InsufficientWeatherData
InsufficientWeatherData == "InsufficientWeatherData"
\* the string getWeatherDataInternal of local.ts throws
InsufficientLocalWeather ==
    "There is insufficient data to support Weather response from local PWS."

----------------------------------------------------------------------------
(* Local days *)

\* startOfDay(localTime(coordinates)) as epoch seconds: 00:00 of the local
\* day of `now` in a zone `off` seconds east of UTC
LocalMidnight(now, off) == ((now + off) \div DAY) * DAY - off

\* the local calendar day of an instant, as a day number
LocalCalendarDay(t, off) == (t + off) \div DAY

\* the zones of the requests: 5 hours west and 2 hours east of UTC
TZOffsets == {0 - 5 * HOUR, 2 * HOUR}

\* date-fns subDays
subDays(t, n) == t - n * DAY

----------------------------------------------------------------------------
(* LocalWeatherProvider *)

RECURSIVE SumField(_, _)
SumField(obs, f) ==
    IF obs = <<>> THEN 0
    ELSE (IF Has(Head(obs)[f]) THEN Val(Head(obs)[f]) ELSE 0) + SumField(Tail(obs), f)

CountField(obs, f) == Cardinality({i \in DOMAIN obs : Has(obs[i][f])})

\* reduce with Infinity as the start value: <<>> stands for Infinity
MinField(obs, f) ==
    LET vs == {Val(obs[i][f]) : i \in {j \in DOMAIN obs : Has(obs[j][f])}}
    IN  IF vs = {} THEN Absent ELSE Some(CHOOSE v \in vs : \A w \in vs : v <= w)

MaxField(obs, f) ==
    LET vs == {Val(obs[i][f]) : i \in {j \in DOMAIN obs : Has(obs[j][f])}}
    IN  IF vs = {} THEN Absent ELSE Some(CHOOSE v \in vs : \A w \in vs : v >= w)

\* a day that takes the observation at the start of the next day too
Between_Closed(obs, from, to) ==
    LET In(o) == o.timestamp >= from /\ o.timestamp <= to
    IN  SelectSeq(obs, In)

Between(obs, from, to) ==
    LET In(o) == o.timestamp >= from /\ o.timestamp < to
    IN  SelectSeq(obs, In)

UpTo(obs, from, to) ==
    LET In(o) == o.timestamp >= from /\ o.timestamp <= to
    IN  SelectSeq(obs, In)

\* the test of a day with wind as an optional reading
DayComplete_WindOptional(dayObs) ==
    /\ CountField(dayObs, "temp") # 0
    /\ CountField(dayObs, "humidity") # 0

\* the test of local.ts 569 and 616-618: temperature, humidity and wind
\* samples, and finite extremes
DayComplete(dayObs) ==
    /\ CountField(dayObs, "temp") # 0
    /\ CountField(dayObs, "humidity") # 0
    /\ Absent \notin {MinField(dayObs, "temp"), MinField(dayObs, "humidity"),
                      MaxField(dayObs, "temp"), MaxField(dayObs, "humidity")}
    /\ CountField(dayObs, "windSpeed") # 0

\* the WateringData of one day (local.ts 571-583 and 624-636)
DayData(dayObs, dayStart) ==
    [humidity |-> <<SumField(dayObs, "humidity"), CountField(dayObs, "humidity")>>,
     solarRadiation |-> IF CountField(dayObs, "solarRadiation") > 0
                        THEN Some(<<SumField(dayObs, "solarRadiation"),
                                    CountField(dayObs, "solarRadiation")>>)
                        ELSE Absent,
     temp |-> <<SumField(dayObs, "temp"), CountField(dayObs, "temp")>>,
     windSpeed |-> Some(<<SumField(dayObs, "windSpeed"), CountField(dayObs, "windSpeed")>>),
     precip |-> SumField(dayObs, "precip"),
     weatherProvider |-> "local",
     periodStartTime |-> dayStart,
     minTemp |-> Val(MinField(dayObs, "temp")),
     maxTemp |-> Val(MaxField(dayObs, "temp")),
     minHumidity |-> Val(MinField(dayObs, "humidity")),
     maxHumidity |-> Val(MaxField(dayObs, "humidity"))]

\* today's partial day (local.ts 548-585)
TodayData(filteredData, currentDay, now) ==
    LET dayObs == UpTo(filteredData, currentDay, now)
    IN  IF Len(dayObs) > 0 /\ DayComplete(dayObs)
        THEN <<DayData(dayObs, currentDay)>>
        ELSE <<>>

\* the loop passing over a day without a bucket instead of stopping there
RECURSIVE PastDays_SkipGaps(_, _, _)
PastDays_SkipGaps(filteredData, dayEnd, i) ==
    IF i >= 7 THEN <<>>
    ELSE LET dayStart == subDays(dayEnd, 1)
             dayObs == Between(filteredData, dayStart, dayEnd)
         IN  (IF Len(dayObs) = 0 \/ ~DayComplete(dayObs) THEN <<>>
              ELSE <<DayData(dayObs, dayStart)>>)
             \o PastDays_SkipGaps(filteredData, dayStart, i + 1)

\* the loop over yesterday .. 7 days ago (local.ts 588-639)
RECURSIVE PastDays(_, _, _)
PastDays(filteredData, dayEnd, i) ==
    IF i >= 7 THEN <<>>
    ELSE LET dayStart == subDays(dayEnd, 1)
             dayObs == Between(filteredData, dayStart, dayEnd)
         IN  IF Len(dayObs) = 0 THEN <<>>
             ELSE IF ~DayComplete(dayObs) THEN <<>>
             ELSE <<DayData(dayObs, dayStart)>> \o PastDays(filteredData, dayStart, i + 1)

\* the watering window without the test of the 23 hours
LocalWateringData_NoSpanCheck(q, now, off) ==
    LET currentDay == LocalMidnight(now, off)
        filteredData == UpTo(q, subDays(currentDay, 7), now)
    IN  Ok(TodayData(filteredData, currentDay, now) \o PastDays(filteredData, currentDay, 0))

\* the watering window failing when yesterday gives no bucket
LocalWateringData_YesterdayRequired(q, now, off) ==
    LET currentDay == LocalMidnight(now, off)
        filteredData == UpTo(q, subDays(currentDay, 7), now)
    IN  IF Len(q) = 0 \/ q[1].timestamp - q[Len(q)].timestamp < 23 * 60 * 60
           \/ PastDays(filteredData, currentDay, 0) = <<>>
        THEN Throw(InsufficientWeatherData)
        ELSE Ok(TodayData(filteredData, currentDay, now) \o PastDays(filteredData, currentDay, 0))

\* LocalWeatherProvider.getWateringDataInternal (local.ts 527-643)
LocalWateringData(q, now, off) ==
    IF Len(q) = 0 \/ q[1].timestamp - q[Len(q)].timestamp < 23 * 60 * 60
    THEN Throw(InsufficientWeatherData)
    ELSE LET currentDay == LocalMidnight(now, off)
             startTime == subDays(currentDay, 7)
             filteredData == UpTo(q, startTime, now)
         IN  Ok(TodayData(filteredData, currentDay, now)
                \o PastDays(filteredData, currentDay, 0))

\* LocalWeatherProvider.getWeatherDataInternal (local.ts 491-525)
LocalWeatherData(q, now) ==
    LET Recent(o) == now - o.timestamp < 24 * 60 * 60
        recentQueue == SelectSeq(q, Recent)
        latest == recentQueue[1]
        precip == (SumField(recentQueue, "precip") \div 10) * 10
    IN  IF Len(recentQueue) = 0 THEN Throw(InsufficientLocalWeather)
        ELSE Ok([humidity |-> IF Has(latest.humidity)
                              THEN Some((Val(latest.humidity) \div Milli) * Milli) ELSE Absent,
                 temp |-> IF Has(latest.temp)
                          THEN Some((Val(latest.temp) \div Milli) * Milli) ELSE Absent,
                 precip |-> precip,
                 weatherProvider |-> "local",
                 wind |-> IF Has(latest.windSpeed)
                          THEN Some((Val(latest.windSpeed) \div 100) * 100) ELSE Absent,
                 raining |-> precip > 0,
                 forecast |-> <<>>])

\* the store after a read that assigns its 24-hour filter to the store
StoreAfterWeatherRead_Trimmed(q, now) ==
    LET Recent(o) == now - o.timestamp < 24 * 60 * 60
    IN  SelectSeq(q, Recent)

\* the store after getWeatherDataInternal: the filter of local.ts 494 builds
\* the local recentQueue and nothing is assigned to queue
StoreAfterWeatherRead(q, now) == q

\* the store after getWateringDataInternal: the filter of local.ts 543
\* builds the local filteredData and nothing is assigned to queue
StoreAfterWateringRead(q, now) == q

\* the read of the watering window; the store is left alone (local.ts 528-529)
getLocalWateringData(off) ==
    /\ req' = [op |-> "local.getWateringData", off |-> off]
    /\ resp' = LocalWateringData(queue, clock, off)
    /\ queue' = StoreAfterWateringRead(queue, clock)
    /\ UNCHANGED <<clock, lastRainEpoch, lastRainCount, disk, nextSave, wuLog, composer, boots, geocoder>>

\* the read of the current weather; the store is left alone (local.ts 492-494)
getLocalWeatherData ==
    /\ req' = [op |-> "local.getWeatherData"]
    /\ resp' = LocalWeatherData(queue, clock)
    /\ queue' = StoreAfterWeatherRead(queue, clock)
    /\ UNCHANGED <<clock, lastRainEpoch, lastRainCount, disk, nextSave, wuLog, composer, boots, geocoder>>

----------------------------------------------------------------------------
(* Persistence *)

\* the store kept by a trim with a retention of LOCAL_OBSERVATION_DAYS days
Retained_SevenDays(q, now) ==
    LET Keep(o) == now - o.timestamp < LOCAL_OBSERVATION_DAYS * 24 * 60 * 60
    IN  SelectSeq(q, Keep)

\* the store kept by saveQueue and by the load at startup (local.ts 649, 673)
Retained(q, now) ==
    LET Keep(o) == now - o.timestamp < (LOCAL_OBSERVATION_DAYS + 1) * 24 * 60 * 60
    IN  SelectSeq(q, Keep)

\* a JSON value: a number or null
JsonNumber(n) == [n |-> n, json |-> "number"]
JsonNull == [n |-> 0, json |-> "null"]

\* JSON.stringify of a number or null: NaN and the infinities are written
\* as null
StringifyNumber(x) == IF x \in {Infinity, Null} THEN JsonNull ELSE JsonNumber(x)

\* JSON.stringify of a property: one that is undefined is left out
StringifyProperty(x) == IF Has(x) THEN Some(StringifyNumber(Val(x))) ELSE Absent

\* JSON.stringify( queue ) (local.ts 658)
JSONstringify(q) ==
    [i \in DOMAIN q |->
        [humidity |-> StringifyProperty(q[i].humidity),
         solarRadiation |-> StringifyProperty(q[i].solarRadiation),
         timestamp |-> StringifyNumber(q[i].timestamp),
         temp |-> StringifyProperty(q[i].temp),
         windSpeed |-> StringifyProperty(q[i].windSpeed),
         precip |-> StringifyProperty(q[i].precip)]]

ParseValue(j) == IF j.json = "null" THEN Null ELSE j.n
ParseProperty(x) == IF Has(x) THEN Some(ParseValue(Val(x))) ELSE Absent

\* JSON.parse of the text of such a file (local.ts 672)
JSONparse(text) ==
    [i \in DOMAIN text |->
        [humidity |-> ParseProperty(text[i].humidity),
         solarRadiation |-> ParseProperty(text[i].solarRadiation),
         timestamp |-> ParseValue(text[i].timestamp),
         temp |-> ParseProperty(text[i].temp),
         windSpeed |-> ParseProperty(text[i].windSpeed),
         precip |-> ParseProperty(text[i].precip)]]

\* what fs.writeFileSync leaves behind: the new file, the old file when it
\* throws before writing, or a cut-off file when it throws while writing
Written(old, q, outcome) ==
    CASE outcome = "written" -> [exists |-> TRUE, valid |-> TRUE, content |-> JSONstringify(q)]
      [] outcome = "failed" -> old
      [] outcome = "partial" -> [exists |-> TRUE, valid |-> FALSE, content |-> <<>>]

WriteOutcomes == {"written", "failed", "partial"}

\* a saveQueue that an error of the write stops for good
saveQueue_StopsOnError(outcome) ==
    /\ clock = nextSave
    /\ queue' = IF outcome = "written" THEN Retained(queue, clock) ELSE <<>>
    /\ disk' = Written(disk, queue', outcome)
    /\ nextSave' = IF outcome = "written" THEN nextSave + SaveInterval ELSE nextSave
    /\ req' = [op |-> "saveQueue", outcome |-> outcome]
    /\ resp' = [status |-> "none"]
    /\ UNCHANGED <<clock, lastRainEpoch, lastRainCount, wuLog, composer, boots, geocoder>>

\* saveQueue, run by the timer (local.ts 646-666, 681)
saveQueue(outcome) ==
    /\ clock = nextSave
    /\ queue' = Retained(queue, clock)
    /\ disk' = Written(disk, queue', outcome)
    /\ nextSave' = nextSave + SaveInterval
    /\ req' = [op |-> "saveQueue", outcome |-> outcome]
    /\ resp' = [status |-> "none"]
    /\ UNCHANGED <<clock, lastRainEpoch, lastRainCount, wuLog, composer, boots, geocoder>>

\* time passes over one or more timer ticks in which nothing but saveQueue
\* runs: the store is what the last of these ticks left
Elapse(d, limit, outcome) ==
    LET lastDue == nextSave + ((clock + d - nextSave) \div SaveInterval) * SaveInterval
    IN  /\ clock + d <= Epoch0 + limit
        /\ clock + d >= nextSave
        /\ clock' = clock + d
        /\ queue' = Retained(queue, lastDue)
        /\ disk' = Written(disk, queue', outcome)
        /\ nextSave' = lastDue + SaveInterval
        /\ req' = [op |-> "elapse", by |-> d]
        /\ resp' = [status |-> "none"]
        /\ UNCHANGED <<lastRainEpoch, lastRainCount, wuLog, composer, boots, geocoder>>

\* the load at startup when LOCAL_PERSISTENCE is set (local.ts 668-679): the
\* retained part of the file, or the empty store when there is no file or
\* JSON.parse throws
Restore(file, now) ==
    IF file.exists /\ file.valid THEN Retained(JSONparse(file.content), now) ELSE <<>>

\* the state after the module has loaded the file `file`
InitRestored(file) ==
    /\ clock = Epoch0
    /\ queue = Restore(file, Epoch0)
    /\ lastRainEpoch = 0
    /\ lastRainCount = 0
    /\ disk = file
    /\ nextSave = Epoch0 + SaveInterval
    /\ req = [op |-> "start"]
    /\ resp = [status |-> "none"]
    /\ wuLog = <<>>
    /\ InitComposer
    /\ boots = 0
    /\ InitGeocoder

\* the process ends and is started again d seconds later: the module
\* variables are initialised anew (local.ts 419-421), the file is loaded
\* and the timer is set (668-683); what the composer cached is gone, and so are the
\* Geocoder's calls and its cache, which no run here has filled before
restart(d) ==
    /\ clock' = clock + d
    /\ queue' = Restore(disk, clock')
    /\ lastRainEpoch' = 0
    /\ lastRainCount' = 0
    /\ nextSave' = clock' + SaveInterval
    /\ boots' = boots + 1
    /\ cachedView' = {}
    /\ flights' = {}
    /\ req' = [op |-> "restart", by |-> d, store |-> queue, timer |-> nextSave]
    /\ resp' = [status |-> "none"]
    /\ geoCache' = [n \in Locations |-> Absent]
    /\ geoCalls' = {}
    /\ UNCHANGED <<disk, wuLog, served, geoLog>>

\* the process is killed while saveQueue runs, and is started again d
\* seconds later: the file is what fs.writeFileSync had done by then
crash(outcome, d) ==
    /\ clock = nextSave
    /\ clock' = clock + d
    /\ disk' = Written(disk, Retained(queue, clock), outcome)
    /\ queue' = Restore(disk', clock')
    /\ lastRainEpoch' = 0
    /\ lastRainCount' = 0
    /\ nextSave' = clock' + SaveInterval
    /\ boots' = boots + 1
    /\ cachedView' = {}
    /\ flights' = {}
    /\ req' = [op |-> "crash",
               by |-> d,
               outcome |-> outcome,
               file |-> disk,
               store |-> Retained(queue, clock)]
    /\ resp' = [status |-> "none"]
    /\ geoCache' = [n \in Locations |-> Absent]
    /\ geoCalls' = {}
    /\ UNCHANGED <<wuLog, served, geoLog>>

----------------------------------------------------------------------------
(* Upstream forecast providers, as the hybrid adapters see them *)

\* one day of WeatherData.forecast
ForecastDay(date) ==
    [precip |-> 0, date |-> date, temp_min |-> 60 * Milli, temp_max |-> 80 * Milli]

\* one day of an upstream getWateringDataInternal
UpstreamWatering(name, date) ==
    [humidity |-> <<55 * Milli, 1>>,
     solarRadiation |-> Absent,
     temp |-> <<70 * Milli, 1>>,
     windSpeed |-> Some(<<4 * Milli, 1>>),
     precip |-> 0,
     weatherProvider |-> name,
     periodStartTime |-> date,
     minTemp |-> 60 * Milli,
     maxTemp |-> 80 * Milli,
     minHumidity |-> 45 * Milli,
     maxHumidity |-> 65 * Milli]

\* the timestamp an upstream gives the day k days after today: local
\* midnight of that day, or 06:00 UTC of that calendar date (Weather
\* Underground, HybridWUndergroundProvider.ts 10 and 52)
UpstreamDate(style, now, off, k) ==
    IF style = "utc6"
    THEN (LocalCalendarDay(now, off) + k) * DAY + 6 * HOUR
    ELSE LocalMidnight(now, off) + k * DAY

Reverse(s) == [i \in 1..Len(s) |-> s[Len(s) - i + 1]]

\* the upstream answered with n consecutive days from day `first`
CloudDays(style, now, off, first, n, newestFirst) ==
    LET asc == [i \in 1..n |-> UpstreamDate(style, now, off, first + i - 1)]
    IN  [first |-> first,
         ok |-> TRUE,
         dates |-> IF newestFirst THEN Reverse(asc) ELSE asc]

\* the upstream call failed
CloudDown == [first |-> 0, ok |-> FALSE, dates |-> <<>>]

----------------------------------------------------------------------------
(* Hybrid adapters: getForecastData *)

\* the conversion leaving out what the daily forecast does not carry
ConvertForecast_NoDefault(name, day) ==
    [humidity |-> Absent,
     solarRadiation |-> Absent,
     temp |-> <<day.temp_min + day.temp_max, 2>>,
     windSpeed |-> Absent,
     precip |-> day.precip,
     weatherProvider |-> name,
     periodStartTime |-> day.date,
     minTemp |-> day.temp_min,
     maxTemp |-> day.temp_max,
     minHumidity |-> Absent,
     maxHumidity |-> Absent]

\* the conversion of WeatherData.forecast (HybridOpenMeteoProvider.ts 47-59,
\* and the same lines of the DWD, OWM, AccuWeather, PirateWeather and
\* WUnderground adapters)
ConvertForecast(name, day) ==
    [humidity |-> <<50 * Milli, 1>>,
     solarRadiation |-> Absent,
     temp |-> <<day.temp_min + day.temp_max, 2>>,
     windSpeed |-> Absent,
     precip |-> day.precip,
     weatherProvider |-> name,
     periodStartTime |-> day.date,
     minTemp |-> day.temp_min,
     maxTemp |-> day.temp_max,
     minHumidity |-> 40 * Milli,
     maxHumidity |-> 60 * Milli]

\* periodStartTime >= tomorrowEpoch (HybridOpenMeteoProvider.ts 79-82)
FromTomorrow(data, currentDayEpoch) ==
    LET tomorrowEpoch == currentDayEpoch + 24 * 60 * 60
        Future(d) == d.periodStartTime >= tomorrowEpoch
    IN  SelectSeq(data, Future)

\* getUTCFullYear, getUTCMonth, getUTCDate of an instant, compared as the
\* number of the UTC day
UTCDate(t) == t \div DAY

\* the calendar-day filter of HybridWUndergroundProvider.ts 55-76
AfterCurrentUTCDate(data, currentDayEpoch) ==
    LET Future(d) == UTCDate(d.periodStartTime) > UTCDate(currentDayEpoch)
    IN  SelectSeq(data, Future)

\* the adapters, and the timestamps of their upstreams
Adapters == {"OpenMeteo", "Apple", "WUnderground"}
StyleOf(adapter) == IF adapter = "WUnderground" THEN "utc6" ELSE "midnight"

\* getForecastData of the adapter named `adapter`
getForecastData(adapter, cloud, currentDayEpoch) ==
    IF ~cloud.ok THEN Throw("WeatherApiError")
    ELSE CASE adapter = "WUnderground" ->
                Ok(AfterCurrentUTCDate(
                    [i \in 1..Len(cloud.dates) |-> ConvertForecast(adapter, ForecastDay(cloud.dates[i]))],
                    currentDayEpoch))
           [] adapter = "Apple" ->
                Ok(FromTomorrow(
                    [i \in 1..Len(cloud.dates) |-> UpstreamWatering(adapter, cloud.dates[i])],
                    currentDayEpoch))
           [] OTHER ->
                Ok(FromTomorrow(
                    [i \in 1..Len(cloud.dates) |-> ConvertForecast(adapter, ForecastDay(cloud.dates[i]))],
                    currentDayEpoch))

----------------------------------------------------------------------------
(* BaseHybridProvider.getWateringDataInternal *)

StartTimes(data) == {data[i].periodStartTime : i \in DOMAIN data}
MaxOf(S) == CHOOSE v \in S : \A w \in S : v >= w
MinOf(S) == CHOOSE v \in S : \A w \in S : v <= w

\* step 3, the removal of an overlap (BaseHybridProvider.ts 169-180)
RemoveOverlap(localDataAvailable, historicalData, forecastData) ==
    IF localDataAvailable /\ Len(historicalData) > 0 /\ Len(forecastData) > 0
    THEN LET latestHistorical == MaxOf(StartTimes(historicalData))
             earliestForecast == MinOf(StartTimes(forecastData))
             Later(d) == d.periodStartTime > latestHistorical
         IN  IF earliestForecast <= latestHistorical
             THEN SelectSeq(forecastData, Later)
             ELSE forecastData
    ELSE forecastData

\* Array.prototype.sort with (a, b) => b.periodStartTime - a.periodStartTime:
\* a stable sort, newest first
RECURSIVE InsertNewestFirst(_, _)
InsertNewestFirst(sorted, e) ==
    IF sorted = <<>> THEN <<e>>
    ELSE IF Head(sorted).periodStartTime >= e.periodStartTime
         THEN <<Head(sorted)>> \o InsertNewestFirst(Tail(sorted), e)
         ELSE <<e>> \o sorted

RECURSIVE SortNewestFirst(_)
SortNewestFirst(data) ==
    IF data = <<>> THEN <<>>
    ELSE InsertNewestFirst(SortNewestFirst(SubSeq(data, 1, Len(data) - 1)), data[Len(data)])

\* the series left as it was combined
Unsorted(data) == data

\* step 5 (BaseHybridProvider.ts 192)
Sorted(data) == SortNewestFirst(data)

\* the composer failing whenever the forecast fails
HybridWateringData_NoFallback(adapter, q, now, off, cloud) ==
    LET localResult == LocalWateringData(q, now, off)
        forecast == getForecastData(adapter, cloud, LocalMidnight(now, off))
    IN  IF forecast.status = "error" \/ localResult.status = "error"
        THEN Throw(InsufficientWeatherData)
        ELSE Ok(Sorted(localResult.data \o forecast.data))

\* BaseHybridProvider.getWateringDataInternal (BaseHybridProvider.ts 114-200)
HybridWateringData(adapter, q, now, off, cloud) ==
    LET currentDayEpoch == LocalMidnight(now, off)
        localResult == LocalWateringData(q, now, off)
        localDataAvailable == localResult.status = "ok" /\ Len(localResult.data) > 0
        historicalData == IF localDataAvailable THEN localResult.data ELSE <<>>
        forecast == getForecastData(adapter, cloud, currentDayEpoch)
    IN  IF forecast.status = "error"
        THEN IF ~localDataAvailable
             THEN Throw(InsufficientWeatherData)
             ELSE Ok(historicalData)
        ELSE LET forecastData == RemoveOverlap(localDataAvailable, historicalData, forecast.data)
                 combinedData == historicalData \o forecastData
             IN  IF Len(combinedData) = 0
                 THEN Throw(InsufficientWeatherData)
                 ELSE Ok(Sorted(combinedData))

hybridGetWateringData(adapter, off, cloud) ==
    /\ req' = [op |-> "hybrid.getWateringData",
               off |-> off,
               adapter |-> adapter,
               cloud |-> cloud]
    /\ resp' = HybridWateringData(adapter, queue, clock, off, cloud)
    /\ UNCHANGED <<clock, queue, lastRainEpoch, lastRainCount, disk, nextSave, wuLog, composer, boots, geocoder>>

\* the WeatherData of an upstream getWeatherDataInternal
CloudWeather(name, cloud) ==
    [humidity |-> Some(55 * Milli),
     temp |-> Some(72 * Milli),
     precip |-> 0,
     weatherProvider |-> name,
     wind |-> Some(4 * Milli),
     raining |-> FALSE,
     forecast |-> [i \in 1..Len(cloud.dates) |-> ForecastDay(cloud.dates[i])]]

\* `local+${this.cloudProviderName}` (BaseHybridProvider.ts 83)
HybridTag(name) == "local+" \o name

\* the weather view carrying the forecast of the upstream next to the
\* local readings
HybridWeatherData_WithForecast(adapter, q, now, cloud) ==
    LET local == LocalWeatherData(q, now)
    IN  IF local.status = "ok"
        THEN Ok([local.data EXCEPT !.weatherProvider = HybridTag(adapter),
                                   !.forecast = CloudWeather(adapter, cloud).forecast])
        ELSE IF cloud.ok
             THEN Ok([CloudWeather(adapter, cloud) EXCEPT !.weatherProvider = HybridTag(adapter)])
             ELSE Throw("WeatherApiError")

\* BaseHybridProvider.getWeatherDataInternal (BaseHybridProvider.ts 64-86)
HybridWeatherData(adapter, q, now, cloud) ==
    LET local == LocalWeatherData(q, now)
        weatherData == IF local.status = "ok" THEN local
                       ELSE IF cloud.ok THEN Ok(CloudWeather(adapter, cloud))
                       ELSE Throw("WeatherApiError")
    IN  IF weatherData.status = "ok"
        THEN Ok([weatherData.data EXCEPT !.weatherProvider = HybridTag(adapter)])
        ELSE weatherData

hybridGetWeatherData(adapter, off, cloud) ==
    /\ req' = [op |-> "hybrid.getWeatherData",
               off |-> off,
               adapter |-> adapter,
               cloud |-> cloud]
    /\ resp' = HybridWeatherData(adapter, queue, clock, cloud)
    /\ UNCHANGED <<clock, queue, lastRainEpoch, lastRainCount, disk, nextSave, wuLog, composer, boots, geocoder>>

----------------------------------------------------------------------------
(* HybridWeatherProvider.getWateringDataWithForecastProvider (hybrid.ts) *)

\* the keys of the forecastProviders map the provider is constructed with
ForecastProviders == {"Apple", "OpenMeteo"}

\* the forecast of a registered provider, before the filter (hybrid.ts 156-186)
ForecastResult(name, cloud) ==
    IF name = "OpenMeteo"
    THEN [i \in 1..Len(cloud.dates) |-> ConvertForecast("OpenMeteo", ForecastDay(cloud.dates[i]))]
    ELSE [i \in 1..Len(cloud.dates) |-> UpstreamWatering(name, cloud.dates[i])]

\* the composer rejecting a tag that is not registered
NamedWateringData_Reject(name, q, now, off, cloud) ==
    IF name \notin ForecastProviders
    THEN Throw(InsufficientWeatherData)
    ELSE HybridWateringData(name, q, now, off, cloud)

\* getWateringDataWithForecastProvider (hybrid.ts 102-251)
NamedWateringData(name, q, now, off, cloud) ==
    LET currentDayEpoch == LocalMidnight(now, off)
        localResult == LocalWateringData(q, now, off)
        localDataAvailable == localResult.status = "ok" /\ Len(localResult.data) > 0
        historicalData == IF localDataAvailable THEN localResult.data ELSE <<>>
    IN  IF name \notin ForecastProviders \/ ~cloud.ok
        THEN IF ~localDataAvailable
             THEN Throw(InsufficientWeatherData)
             ELSE Ok(historicalData)
        ELSE LET forecastData ==
                     RemoveOverlap(localDataAvailable, historicalData,
                         FromTomorrow(ForecastResult(name, cloud), currentDayEpoch))
                 combinedData == historicalData \o forecastData
             IN  IF Len(combinedData) = 0
                 THEN Throw(InsufficientWeatherData)
                 ELSE Ok(Sorted(combinedData))

getWateringDataWithForecastProvider(name, off, cloud) ==
    /\ req' = [op |-> "hybrid.withForecastProvider",
               off |-> off,
               name |-> name,
               cloud |-> cloud]
    /\ resp' = NamedWateringData(name, queue, clock, off, cloud)
    /\ UNCHANGED <<clock, queue, lastRainEpoch, lastRainCount, disk, nextSave, wuLog, composer, boots, geocoder>>

----------------------------------------------------------------------------
(* The rain counter: ingests that differ in dailyrainin and rainin *)

RainStep == 10 * 60

RawRain == {Missing, Text, Num(NoSensor), Num(20), Num(100), Num(150)}
RawRainin == {Missing, Num(10)}

RainQueries ==
    {WUQuery(NowDate, Num(70 * Milli), Num(50 * Milli), Num(3 * Milli), Missing, dr, r) :
        dr \in RawRain, r \in RawRainin}

RainIngest == \E q \in RainQueries : captureWUStream(q)
RainAdvance == Advance(RainStep, RainMaxSteps * RainStep)

NextRain == RainIngest \/ RainAdvance

SpecRain == Init /\ [][NextRain]_vars

----------------------------------------------------------------------------
(* Properties of the rain counter *)

\* the i-th captureWUStream call of this process, in the order of the calls
Call(i) == wuLog[Len(wuLog) - i + 1]
Carries(i) == Call(i).query.dailyrainin.k = "num" /\ Call(i).query.dailyrainin.v # NoSensor

\* the dailyrainin of the latest call before call i that carried one, else 0
RECURSIVE LastCarried(_)
LastCarried(i) ==
    IF i <= 1 THEN 0
    ELSE IF Carries(i - 1) THEN Call(i - 1).query.dailyrainin.v
    ELSE LastCarried(i - 1)

\* the interval rain recorded by the calls a+1..b
RECURSIVE RecordedRain(_, _)
RecordedRain(a, b) ==
    IF b <= a THEN 0 ELSE Val(Call(b).obs.precip) + RecordedRain(a, b - 1)

\* calls a..b all carry dailyrainin and the values do not decrease
Monotonic(a, b) ==
    /\ \A i \in a..b : Carries(i)
    /\ \A i \in a..(b - 1) : Call(i).query.dailyrainin.v <= Call(i + 1).query.dailyrainin.v

\* C1: every call that carries dailyrainin stores as interval rain the value
\* itself when it is below the last carried value (0 before the first), and
\* the difference to the last carried value otherwise.
C1_IntervalRain ==
    \A i \in 1..Len(wuLog) :
        Carries(i) =>
            LET r == Call(i).query.dailyrainin.v
                last == LastCarried(i)
            IN  /\ Call(i).before = last
                /\ Call(i).obs.precip = Some(IF r < last THEN r ELSE r - last)

C1_Witness ==
    \E i \in 2..Len(wuLog) :
        /\ Carries(i)
        /\ ~Carries(i - 1)
        /\ LastCarried(i) > 0
        /\ Call(i).query.dailyrainin.v > LastCarried(i)

\* C2: over consecutive calls with values r0 <= ... <= rk the recorded
\* interval rain of r1..rk sums to rk - r0; a following smaller value is
\* recorded as itself; from a fresh start 0.10, 0.15, 0.02 record
\* 0.10, 0.05, 0.02.
C2_RainDelta ==
    /\ \A a \in 1..Len(wuLog) : \A b \in a..Len(wuLog) :
          Monotonic(a, b) =>
              /\ RecordedRain(a, b) = Call(b).query.dailyrainin.v - Call(a).query.dailyrainin.v
              /\ (b < Len(wuLog) /\ Carries(b + 1)
                    /\ Call(b + 1).query.dailyrainin.v < Call(b).query.dailyrainin.v)
                 => Call(b + 1).obs.precip = Some(Call(b + 1).query.dailyrainin.v)
    /\ (Len(wuLog) = 3
          /\ [i \in 1..3 |-> Call(i).query.dailyrainin] = <<Num(100), Num(150), Num(20)>>)
       => [i \in 1..3 |-> Call(i).obs.precip] = <<Some(100), Some(50), Some(20)>>

C2_Witness ==
    /\ Len(wuLog) = 3
    /\ [i \in 1..3 |-> Call(i).query.dailyrainin] = <<Num(100), Num(150), Num(20)>>
    /\ [i \in 1..3 |-> Call(i).obs.timestamp] = <<Epoch0, Epoch0 + 600, Epoch0 + 1200>>

\* C3: a call whose dailyrainin is missing, not a number or -9999.0 stores
\* no interval rain and leaves lastRainCount as it was, so that the next
\* call that carries dailyrainin is measured against the last carried value.
C3_AbsentRain ==
    \A i \in 1..Len(wuLog) :
        LET raw == Call(i).query.dailyrainin
        IN  (raw.k = "missing" \/ raw.k = "text" \/ (raw.k = "num" /\ raw.v = NoSensor)) =>
              /\ Call(i).obs.precip = Absent
              /\ Call(i).after = Call(i).before
              /\ (i = Len(wuLog)) => lastRainCount = Call(i).before
              /\ (i < Len(wuLog) /\ Carries(i + 1)) =>
                    LET r == Call(i + 1).query.dailyrainin.v
                        last == Call(i).before
                    IN  Call(i + 1).obs.precip = Some(IF r < last THEN r ELSE r - last)

C3_Witness ==
    /\ Len(wuLog) = 3
    /\ Carries(1) /\ ~Carries(2) /\ Carries(3)
    /\ Call(2).before = 100
    /\ Call(3).obs.precip = Some(50)

----------------------------------------------------------------------------
(* The store: ingests with current and with old dateutc values, reads, and *)
(* the saveQueue timer                                                     *)

StoreStep == 10 * 60

\* dateutc values a little less than 8 days before the clock
StoreBackdates == {8 * DAY - 30 * 60, 8 * DAY - 10 * 60}

StoreQueries(now) ==
    {WUQuery(d, Num(70 * Milli), Num(50 * Milli), Num(3 * Milli), Missing, Missing, Missing) :
        d \in {NowDate} \cup {UtcDate(now - b) : b \in StoreBackdates}}

StoreIngest == \E q \in StoreQueries(clock) : captureWUStream(q)
StoreAdvance == Advance(StoreStep, StoreMaxSteps * StoreStep)
StoreSave == \E outcome \in WriteOutcomes : saveQueue(outcome)
StoreReadWatering == getLocalWateringData(0)
StoreReadWeather == getLocalWeatherData

NextStore ==
    \/ StoreIngest
    \/ StoreAdvance
    \/ StoreSave
    \/ StoreReadWatering
    \/ StoreReadWeather

SpecStore == Init /\ [][NextStore]_vars

\* the observations ingested by this process, newest first
Ingested == [i \in 1..Len(wuLog) |-> wuLog[i].obs]

Age(o) == clock - o.timestamp

RECURSIVE IsSubSeq(_, _)
IsSubSeq(a, b) ==
    IF a = <<>> THEN TRUE
    ELSE IF b = <<>> THEN FALSE
    ELSE IF Head(a) = Head(b) THEN IsSubSeq(Tail(a), Tail(b))
    ELSE IsSubSeq(a, Tail(b))

AtMostEightDays(o) == Age(o) <= 8 * DAY
UnderEightDays(o) == Age(o) < 8 * DAY

\* C4 as claimed: at all times the store holds exactly the ingested
\* observations whose age is at most 8 days.
C4_AlwaysTrimmed == queue = SelectSeq(Ingested, AtMostEightDays)

\* C4 as amended: the store holds ingested observations only, in the order
\* of their ingest, and among them every one younger than 8 days; right
\* after saveQueue it holds none whose age is 8 days or more.
C4_TrimmedOnSave ==
    /\ IsSubSeq(queue, Ingested)
    /\ SelectSeq(queue, UnderEightDays) = SelectSeq(Ingested, UnderEightDays)
    /\ req.op = "saveQueue" => queue = SelectSeq(Ingested, UnderEightDays)

C4_Witness ==
    /\ req.op = "saveQueue"
    /\ Len(queue) >= 1
    /\ Len(queue) < Len(Ingested)
    /\ \E i \in 1..Len(queue) : Age(queue[i]) > 7 * DAY

\* the time between the oldest and the newest observation of a store
SpanOf(q) == MaxOf({q[i].timestamp : i \in DOMAIN q}) - MinOf({q[i].timestamp : i \in DOMAIN q})

\* C11: the watering window fails with InsufficientWeatherData exactly when
\* the store is empty or its oldest and newest observation are less than 23
\* hours apart, in whatever order the observations were ingested.
C11_SpanRule ==
    req.op = "local.getWateringData" =>
        IF queue = <<>> \/ SpanOf(queue) < 23 * HOUR
        THEN resp = Throw(InsufficientWeatherData)
        ELSE resp.status = "ok"

\* C26: after any sequence of ingests the store is ordered by time, the
\* head with the greatest timestamp and the tail with the smallest, also
\* when the dateutc values arrive out of order or repeated.
C26_TimeOrdered ==
    \A i, j \in DOMAIN queue : i < j => queue[i].timestamp >= queue[j].timestamp

ReadOps == {"local.getWeatherData", "local.getWateringData"}

\* C16: a read of the current weather or of the watering window, whether it
\* returns or throws, leaves the store with the same observations in the
\* same order, and leaves lastRainCount and lastRainEpoch as they were.
C16_ReadsKeepStore ==
    [][req'.op \in ReadOps =>
          /\ queue' = queue
          /\ lastRainCount' = lastRainCount
          /\ lastRainEpoch' = lastRainEpoch]_vars

C16_Witness ==
    /\ req.op = "local.getWeatherData"
    /\ resp.status = "ok"
    /\ \E i \in DOMAIN queue : clock - queue[i].timestamp >= 24 * HOUR

----------------------------------------------------------------------------
(* The day buckets: a process that starts with a persisted file of one     *)
(* observation per day, with days that are missing or lack a sensor, and   *)
(* then ingests observations with and without each sensor                  *)

DaysStep == 24 * HOUR

\* what an upload carries: every reading, or every reading but the solar
\* one and the wind or the humidity
UploadKinds == {"solar", "nowind", "nohum"}

\* the upload of a kind; "full" has every reading but the solar one
DayQuery(kind, d) ==
    WUQuery(d,
            IF kind = "notemp" THEN Missing ELSE Num(70 * Milli),
            IF kind = "nohum" THEN Num(NoSensor) ELSE Num(50 * Milli),
            IF kind = "nowind" THEN Missing ELSE Num(3 * Milli),
            IF kind = "solar" THEN Num(250 * Milli) ELSE Missing,
            Missing, Missing)

\* the observation such an upload left in the file
Stored(kind, t) == MakeObservation(DayQuery(kind, UtcDate(t)), t, 0)

\* what the file holds of the day k days before the start: nothing, or one
\* observation at 12:00 UTC
FullRun(n) == [k \in 1..HistoryDays |-> IF k <= n THEN "full" ELSE "none"]
Gapped(g, x) == [k \in 1..HistoryDays |-> IF k = g THEN x ELSE "full"]

\* the days that may be the odd one of a file: yesterday, a day in the
\* middle and a day near the end of the window
GapDays == {1, 3, LOCAL_OBSERVATION_DAYS - 1}

Histories ==
    {FullRun(0), FullRun(HistoryDays)}
    \cup {Gapped(g, x) : g \in GapDays, x \in {"none", "nowind", "notemp"}}

FileOf(h) ==
    LET Present(k) == h[k] # "none"
        days == SelectSeq([k \in 1..HistoryDays |-> k], Present)
    IN  [exists |-> TRUE, valid |-> TRUE,
         content |-> JSONstringify([i \in 1..Len(days) |->
                        Stored(h[days[i]], Epoch0 - days[i] * DAY + 12 * HOUR)])]

InitDays == \E h \in Histories : InitRestored(FileOf(h))

DaysIngest == \E kind \in UploadKinds : captureWUStream(DayQuery(kind, NowDate))
DaysElapse == Elapse(DaysStep, DaysMaxSteps * DaysStep, "written")
DaysRead == \E off \in TZOffsets : getLocalWateringData(off)

NextDays ==
    \/ DaysIngest
    \/ DaysElapse
    \/ DaysRead

SpecDays == InitDays /\ [][NextDays]_vars

\* the request handled last read the watering window of the local provider
WindowRead == req.op = "local.getWateringData"

\* the stored observations of the local day k days before today (k = 0:
\* today up to now) that carry the field f
DaySamples(k, f) ==
    LET mid == LocalMidnight(clock, req.off)
    IN  {i \in DOMAIN queue :
            /\ Has(queue[i][f])
            /\ IF k = 0
               THEN queue[i].timestamp >= mid /\ queue[i].timestamp <= clock
               ELSE /\ queue[i].timestamp >= mid - k * DAY
                    /\ queue[i].timestamp < mid - (k - 1) * DAY}

\* the element of the answer for the local day k days before today
DayElements(k) ==
    {i \in DOMAIN resp.data :
        resp.data[i].periodStartTime = LocalMidnight(clock, req.off) - k * DAY}

\* the store passes the test of the 23 hours
SpanPasses == queue # <<>> /\ queue[1].timestamp - queue[Len(queue)].timestamp >= 23 * HOUR

\* C12 as claimed: the watering window fails with InsufficientWeatherData
\* when yesterday has no temperature sample or no humidity sample.
C12_YesterdayRequired ==
    (WindowRead /\ SpanPasses
        /\ (DaySamples(1, "temp") = {} \/ DaySamples(1, "humidity") = {})) =>
        resp = Throw(InsufficientWeatherData)

\* C12 as amended: when the store passes the test of the 23 hours and
\* yesterday lacks a temperature, humidity or wind sample, the watering
\* window does not fail: it returns today's bucket alone when today has
\* all three, and the empty series otherwise.
C12_YesterdayOptional ==
    (WindowRead /\ SpanPasses
        /\ (\E f \in {"temp", "humidity", "windSpeed"} : DaySamples(1, f) = {})) =>
        /\ resp.status = "ok"
        /\ \A i \in DOMAIN resp.data : i \in DayElements(0)
        /\ Len(resp.data) =
              IF \A f \in {"temp", "humidity", "windSpeed"} : DaySamples(0, f) # {}
              THEN 1 ELSE 0

C12_Witness ==
    /\ WindowRead /\ SpanPasses
    /\ DaySamples(1, "humidity") # {} /\ DaySamples(1, "temp") = {}
    /\ DaySamples(2, "temp") # {}
    /\ resp.status = "ok" /\ Len(resp.data) = 1

\* the local day k days before today has the samples a bucket needs
DayUsable(k) == \A f \in {"temp", "humidity", "windSpeed"} : DaySamples(k, f) # {}

\* the number of usable days in a row from the day k days before today back
\* to the day LOCAL_OBSERVATION_DAYS days before today
RECURSIVE RunLength(_)
RunLength(k) ==
    IF k > LOCAL_OBSERVATION_DAYS \/ ~DayUsable(k) THEN 0 ELSE 1 + RunLength(k + 1)

\* C13: a watering window is strictly newest first, holds at most 8 day
\* buckets, each the bucket of today or of one of the 7 days before it, and
\* its past days are exactly the usable days in a row back from yesterday:
\* none at or beyond the first day that is empty or incomplete.
C13_GapFreeRun ==
    (WindowRead /\ resp.status = "ok") =>
        /\ Len(resp.data) <= 8
        /\ \A i \in 1..(Len(resp.data) - 1) :
              resp.data[i].periodStartTime > resp.data[i + 1].periodStartTime
        /\ \A i \in DOMAIN resp.data :
              \E k \in 0..LOCAL_OBSERVATION_DAYS : i \in DayElements(k)
        /\ {k \in 1..LOCAL_OBSERVATION_DAYS : DayElements(k) # {}} = 1..RunLength(1)
        /\ Len(resp.data) = RunLength(1) + (IF DayUsable(0) THEN 1 ELSE 0)

C13_Witness ==
    /\ WindowRead /\ resp.status = "ok"
    /\ \E g \in 3..(LOCAL_OBSERVATION_DAYS - 1) :
          /\ RunLength(1) = g - 1
          /\ DaySamples(g, "temp") # {} /\ DaySamples(g, "windSpeed") = {}
          /\ DayUsable(g + 1)
          /\ Len(resp.data) = g

\* a window of today and all 7 days before it, read from a store that
\* holds an older observation too
FullWindow ==
    /\ WindowRead /\ resp.status = "ok"
    /\ Len(resp.data) = 8
    /\ \E i \in DOMAIN queue :
          queue[i].timestamp < LocalMidnight(clock, req.off) - LOCAL_OBSERVATION_DAYS * DAY

\* C14 as claimed: today's bucket and yesterday's bucket are returned if
\* and only if the day has a temperature sample and a humidity sample,
\* whether or not it has wind or solar samples.
C14_WindOptional ==
    (WindowRead /\ resp.status = "ok") =>
        \A k \in 0..1 :
            DayElements(k) # {} <=> (DaySamples(k, "temp") # {} /\ DaySamples(k, "humidity") # {})

\* C14 as amended: today's bucket and yesterday's bucket are returned if
\* and only if the day has a temperature, a humidity and a wind sample; a
\* returned bucket carries a wind speed, and a solar radiation if and only
\* if the day has a solar sample.
C14_WindRequired ==
    (WindowRead /\ resp.status = "ok") =>
        \A k \in 0..1 :
            /\ DayElements(k) # {} <=> DayUsable(k)
            /\ \A i \in DayElements(k) :
                  /\ Has(resp.data[i].windSpeed)
                  /\ Has(resp.data[i].solarRadiation) <=> DaySamples(k, "solarRadiation") # {}

C14_Witness ==
    /\ WindowRead /\ resp.status = "ok"
    /\ DaySamples(0, "temp") # {} /\ DaySamples(0, "humidity") # {}
    /\ DaySamples(0, "windSpeed") = {} /\ DayElements(0) = {}
    /\ DayUsable(1) /\ DaySamples(1, "solarRadiation") = {}
    /\ \E i \in DayElements(1) : resp.data[i].solarRadiation = Absent

----------------------------------------------------------------------------
(* The composers: stations with and without a wind sensor, requests from   *)
(* zones west and east of UTC, upstreams that answer with today or         *)
(* tomorrow as first day, in either order, or fail                         *)

HybridStep == 24 * HOUR

HybridQueries ==
    {WUQuery(NowDate, Num(70 * Milli), Num(50 * Milli), w, Missing, Num(100), Missing) :
        w \in {Missing, Num(3 * Milli)}}

\* <<first day, number of days, newest first>> of an upstream answer: none,
\* today and the days after it, tomorrow and the days after it, two days
\* newest first, and for Apple, whose answer reaches into the past, three
\* days from yesterday
CloudShapes(name) ==
    {<<0, 0, FALSE>>, <<0, MaxForecastDays, FALSE>>, <<1, MaxForecastDays, FALSE>>,
     <<1, 2, TRUE>>}
    \cup (IF name = "Apple" THEN {<<0 - 1, 3, TRUE>>} ELSE {})

Clouds(name, now, off) ==
    {CloudDown} \cup
    {CloudDays(StyleOf(name), now, off, c[1], c[2], c[3]) : c \in CloudShapes(name)}

HybridIngest == \E q \in HybridQueries : captureWUStream(q)
HybridElapse == Elapse(HybridStep, HybridMaxSteps * HybridStep, "written")
HybridRead ==
    \E adapter \in Adapters, off \in TZOffsets :
        \E cloud \in Clouds(adapter, clock, off) : hybridGetWateringData(adapter, off, cloud)
HybridLocalRead == \E off \in TZOffsets : getLocalWateringData(off)

NextHybrid ==
    \/ HybridIngest
    \/ HybridElapse
    \/ HybridRead
    \/ HybridLocalRead

SpecHybrid == Init /\ [][NextHybrid]_vars

\* the same runs with the requests that name their forecast provider
NamedRead ==
    \E name \in ForecastProviders \cup {"Nowhere"}, off \in TZOffsets :
        \E cloud \in Clouds(name, clock, off) : getWateringDataWithForecastProvider(name, off, cloud)

NextNamed ==
    \/ HybridIngest
    \/ HybridElapse
    \/ NamedRead

SpecNamed == Init /\ [][NextNamed]_vars

IsLocal(e) == e.weatherProvider = "local"
Elements(data) == {data[i] : i \in DOMAIN data}
Composed == req.op = "hybrid.getWateringData" /\ resp.status = "ok"

\* what the two sources of the request handled last give
LocalOfReq == LocalWateringData(queue, clock, req.off)
LocalUsable == LocalOfReq.status = "ok" /\ Len(LocalOfReq.data) > 0
ForecastOfReq == getForecastData(req.adapter, req.cloud, LocalMidnight(clock, req.off))

C6_ForecastAfterToday ==
    Composed =>
        \A e \in Elements(resp.data) :
            ~IsLocal(e) =>
                LocalCalendarDay(e.periodStartTime, req.off) > LocalCalendarDay(clock, req.off)

\* C7: in a series with local and forecast elements no forecast element
\* shares its local calendar day with a local element, and of an upstream
\* answer of today plus n future days exactly the n future days remain.
C7_NoSharedDay ==
    Composed =>
        /\ \A e \in Elements(resp.data) : \A l \in Elements(resp.data) :
              (~IsLocal(e) /\ IsLocal(l)) =>
                  LocalCalendarDay(e.periodStartTime, req.off)
                      # LocalCalendarDay(l.periodStartTime, req.off)
        /\ (req.cloud.ok /\ req.cloud.first = 0 /\ Len(req.cloud.dates) >= 1) =>
              Cardinality({e \in Elements(resp.data) : ~IsLocal(e)}) = Len(req.cloud.dates) - 1

\* the forecast days of the request that lie after the latest local day
ForecastKept ==
    LET latest == MaxOf(StartTimes(LocalOfReq.data))
    IN  {f \in Elements(ForecastOfReq.data) : f.periodStartTime > latest}

\* C8: local and forecast usable give the union of both, local usable and
\* forecast failing give the local days and no error, local unusable and
\* forecast usable give the filtered forecast days, and nothing usable (or
\* an empty union) gives InsufficientWeatherData.
C8_DegradationMatrix ==
    req.op = "hybrid.getWateringData" =>
        /\ (LocalUsable /\ req.cloud.ok) =>
              /\ resp.status = "ok"
              /\ Elements(resp.data) = Elements(LocalOfReq.data) \cup ForecastKept
              /\ Len(resp.data) = Len(LocalOfReq.data) + Cardinality(ForecastKept)
        /\ (LocalUsable /\ ~req.cloud.ok) => resp = Ok(LocalOfReq.data)
        /\ (~LocalUsable /\ req.cloud.ok /\ Len(ForecastOfReq.data) > 0) =>
              /\ resp.status = "ok"
              /\ Elements(resp.data) = Elements(ForecastOfReq.data)
              /\ Len(resp.data) = Len(ForecastOfReq.data)
        /\ (~LocalUsable /\ (~req.cloud.ok \/ Len(ForecastOfReq.data) = 0)) =>
              resp = Throw(InsufficientWeatherData)

C8_Witness ==
    /\ req.op = "hybrid.getWateringData"
    /\ LocalUsable /\ Len(LocalOfReq.data) >= 2
    /\ ~req.cloud.ok
    /\ resp = Ok(LocalOfReq.data)

\* the time between the oldest and the newest stored observation
StoreSpan == MaxOf({queue[i].timestamp : i \in DOMAIN queue})
                 - MinOf({queue[i].timestamp : i \in DOMAIN queue})
UnderADay == queue = <<>> \/ StoreSpan < 23 * HOUR

\* C9 as claimed: with less than 23 hours of samples the composer fails
\* with InsufficientWeatherData.
C9_ColdStartFails ==
    (req.op = "hybrid.getWateringData" /\ queue # <<>> /\ StoreSpan < 23 * HOUR) =>
        resp = Throw(InsufficientWeatherData)

\* C9 as amended: with less than 23 hours of samples the local provider
\* fails with InsufficientWeatherData; the composer fails with it exactly
\* when the forecast fails too or leaves no day after the filter, and
\* returns the filtered forecast days alone otherwise.
C9_ColdStartDegrades ==
    /\ (req.op = "local.getWateringData" /\ UnderADay) =>
           resp = Throw(InsufficientWeatherData)
    /\ (req.op = "hybrid.getWateringData" /\ UnderADay) =>
           IF req.cloud.ok /\ Len(ForecastOfReq.data) > 0
           THEN /\ resp.status = "ok"
                /\ \A e \in Elements(resp.data) : ~IsLocal(e)
                /\ Elements(resp.data) = Elements(ForecastOfReq.data)
           ELSE resp = Throw(InsufficientWeatherData)

C9_Witness ==
    /\ req.op = "hybrid.getWateringData"
    /\ Len(queue) >= 2 /\ StoreSpan < 23 * HOUR
    /\ resp.status = "ok"
    /\ Len(resp.data) = MaxForecastDays

\* C10 as claimed: a request that names a forecast provider that is not
\* registered fails with InvalidProvider.
C10_InvalidProvider ==
    (req.op = "hybrid.withForecastProvider" /\ req.name \notin ForecastProviders) =>
        resp = Throw("InvalidProvider")

\* C10 as amended: such a request returns the local days, without an
\* error, when the local provider has days, and fails with
\* InsufficientWeatherData when it has none.
C10_UnregisteredFallsBack ==
    (req.op = "hybrid.withForecastProvider" /\ req.name \notin ForecastProviders) =>
        IF LocalUsable
        THEN resp = Ok(LocalOfReq.data)
        ELSE resp = Throw(InsufficientWeatherData)

C10_Witness ==
    /\ req.op = "hybrid.withForecastProvider"
    /\ req.name \notin ForecastProviders
    /\ req.cloud.ok /\ Len(req.cloud.dates) > 0
    /\ resp.status = "ok"
    /\ Len(resp.data) >= 2

----------------------------------------------------------------------------
(* The current weather: uploads stamped now or an hour back, with readings *)
(* that have decimals and rain counters below a hundredth of an inch       *)

ViewStep == 12 * HOUR

ViewQueries(now) ==
    {WUQuery(d, t, Num(50500), Num(3450), Missing, dr, Missing) :
        d \in {NowDate, UtcDate(now - HOUR)},
        t \in {Num(70500), Num(65250)},
        dr \in {Missing, Num(4), Num(20)}}

ViewIngest == \E q \in ViewQueries(clock) : captureWUStream(q)
ViewElapse == Elapse(ViewStep, ViewMaxSteps * ViewStep, "written")
ViewRead == getLocalWeatherData

NextView ==
    \/ ViewIngest
    \/ ViewElapse
    \/ ViewRead

SpecView == Init /\ [][NextView]_vars

\* the stored observations of the last 24 hours
Window == {i \in DOMAIN queue : clock - queue[i].timestamp < 24 * HOUR}

\* a reading cut to a multiple of `unit` thousandths
Floored(x, unit) == IF Has(x) THEN Some(Val(x) - (Val(x) % unit)) ELSE Absent

\* C17: the current weather fails with InsufficientWeatherData exactly when
\* no stored observation lies in the last 24 hours, and returns the floored
\* readings of the observation with the greatest timestamp otherwise.
C17_NewestSample ==
    req.op = "local.getWeatherData" =>
        IF Window = {}
        THEN resp = Throw(InsufficientWeatherData)
        ELSE /\ resp.status = "ok"
             /\ \E i \in Window :
                   /\ \A j \in Window : queue[i].timestamp >= queue[j].timestamp
                   /\ resp.data.temp = Floored(queue[i].temp, Milli)
                   /\ resp.data.humidity = Floored(queue[i].humidity, Milli)
                   /\ resp.data.wind = Floored(queue[i].windSpeed, 100)

\* the same with any error accepted as the failure
NewestSampleOrAnyError ==
    req.op = "local.getWeatherData" =>
        IF Window = {}
        THEN resp.status = "error"
        ELSE /\ resp.status = "ok"
             /\ \E i \in Window :
                   /\ \A j \in Window : queue[i].timestamp >= queue[j].timestamp
                   /\ resp.data.temp = Floored(queue[i].temp, Milli)

\* the interval rain of the stored observations 1..n that lie in the last
\* 24 hours, in thousandths of an inch
RECURSIVE WindowRain(_)
WindowRain(n) ==
    IF n = 0 THEN 0
    ELSE WindowRain(n - 1)
         + (IF n \in Window /\ Has(queue[n].precip) THEN Val(queue[n].precip) ELSE 0)

\* C18: the current weather says raining exactly when the interval rain of
\* the last 24 hours sums to more than 0, however small the sum.
C18_RainingIffAnyRain ==
    (req.op = "local.getWeatherData" /\ resp.status = "ok") =>
        (resp.data.raining <=> WindowRain(Len(queue)) > 0)

\* the same for sums of a hundredth of an inch and more
RainingFromAHundredth ==
    (req.op = "local.getWeatherData" /\ resp.status = "ok") =>
        (resp.data.raining <=> WindowRain(Len(queue)) >= 10)

\* the request went to an adapter that converts the daily forecast of its
\* upstream, which carries a date, two temperatures and the rain only
Converting == Composed /\ req.adapter # "Apple"

\* C20 as claimed: a forecast day whose upstream carries no humidity, solar
\* or wind value is in the composed series with these fields absent.
C20_AbsentNotDefault ==
    Converting =>
        \A e \in Elements(resp.data) :
            ~IsLocal(e) =>
                /\ e.humidity = Absent
                /\ e.solarRadiation = Absent
                /\ e.windSpeed = Absent

\* C20 as amended: such a forecast day is in the composed series with a
\* humidity of 50, a minimum of 40 and a maximum of 60 percent, and with no
\* solar and no wind value; the days of Apple are the days of its upstream.
C20_HumidityDefault ==
    Composed =>
        \A e \in Elements(resp.data) :
            ~IsLocal(e) =>
                IF req.adapter = "Apple"
                THEN e = UpstreamWatering("Apple", e.periodStartTime)
                ELSE /\ e.humidity = <<50 * Milli, 1>>
                     /\ e.minHumidity = 40 * Milli
                     /\ e.maxHumidity = 60 * Milli
                     /\ e.solarRadiation = Absent
                     /\ e.windSpeed = Absent

C20_Witness ==
    /\ Converting
    /\ req.adapter = "OpenMeteo"
    /\ \E e \in Elements(resp.data) : IsLocal(e)
    /\ \E e \in Elements(resp.data) : ~IsLocal(e) /\ e.humidity = <<50 * Milli, 1>>

----------------------------------------------------------------------------
(* The composers with upstreams that answer with more days than a week *)

\* answers of MaxForecastDays days and more, from tomorrow on
LongClouds(name, now, off) ==
    {CloudDays(StyleOf(name), now, off, 1, MaxForecastDays + more, FALSE) : more \in 0..3}

LongRead ==
    \E adapter \in Adapters, off \in TZOffsets :
        \E cloud \in LongClouds(adapter, clock, off) : hybridGetWateringData(adapter, off, cloud)

NextLong ==
    \/ HybridIngest
    \/ HybridElapse
    \/ LongRead

SpecLong == Init /\ [][NextLong]_vars

\* C15: every element of a composed series lies on a local calendar day
\* from 7 days before today to 7 days after today, however many days the
\* upstream answers with.
C15_WithinWindow ==
    Composed =>
        \A e \in Elements(resp.data) :
            LET today == LocalCalendarDay(clock, req.off)
                day == LocalCalendarDay(e.periodStartTime, req.off)
            IN  day >= today - 7 /\ day <= today + 7

----------------------------------------------------------------------------
(* The weather view of the composers *)

HybridWeatherRead ==
    \E adapter \in Adapters, off \in TZOffsets :
        \E cloud \in Clouds(adapter, clock, off) : hybridGetWeatherData(adapter, off, cloud)

NextHybridView ==
    \/ HybridIngest
    \/ HybridElapse
    \/ HybridWeatherRead

SpecHybridView == Init /\ [][NextHybridView]_vars

WeatherViewed == req.op = "hybrid.getWeatherData"

\* the local 24-hour view and the combined series for the same request
LocalViewOfReq == LocalWeatherData(queue, clock)
SeriesOfReq == HybridWateringData(req.adapter, queue, clock, req.off, req.cloud)

\* the start times of the forecast elements of a series, in its order
ForecastTail(data) ==
    LET FromForecast(e) == ~IsLocal(e)
        tail == SelectSeq(data, FromForecast)
    IN  [i \in 1..Len(tail) |-> tail[i].periodStartTime]

Dates(forecast) == [i \in 1..Len(forecast) |-> forecast[i].date]

\* C19 as claimed: the weather view of a composer returns the readings of
\* the local 24-hour view and, as forecast list, the forecast elements of
\* the combined series.
C19_ForecastTail ==
    (WeatherViewed /\ LocalViewOfReq.status = "ok" /\ SeriesOfReq.status = "ok") =>
        /\ resp.status = "ok"
        /\ resp.data.temp = LocalViewOfReq.data.temp
        /\ resp.data.raining = LocalViewOfReq.data.raining
        /\ Dates(resp.data.forecast) = ForecastTail(SeriesOfReq.data)

\* C19 as amended: the weather view returns the local 24-hour view under
\* the tag local+<provider> with an empty forecast list; when the local
\* view fails it returns the weather of the upstream, forecast list
\* included, under the same tag, and fails when the upstream fails too.
C19_LocalViewNoForecast ==
    WeatherViewed =>
        IF LocalViewOfReq.status = "ok"
        THEN /\ resp = Ok([LocalViewOfReq.data EXCEPT !.weatherProvider = HybridTag(req.adapter)])
             /\ resp.data.forecast = <<>>
        ELSE IF req.cloud.ok
             THEN /\ resp.status = "ok"
                  /\ resp.data.weatherProvider = HybridTag(req.adapter)
                  /\ Dates(resp.data.forecast) = req.cloud.dates
             ELSE resp.status = "error"

C19_Witness ==
    /\ WeatherViewed
    /\ LocalViewOfReq.status = "ok"
    /\ SeriesOfReq.status = "ok"
    /\ Len(ForecastTail(SeriesOfReq.data)) >= 2
    /\ resp.status = "ok"
    /\ resp.data.temp = Some(70 * Milli)
    /\ resp.data.forecast = <<>>

----------------------------------------------------------------------------
(* The composer's cached view (spec.md 3, CachedView; 4.6; 5): one view    *)
(* per (coords, provider), kept for five minutes, composed by one caller   *)
(* at a time. The composition itself is getWateringDataInternal of         *)
(* BaseHybridProvider.ts: the local days are read when it starts, the      *)
(* forecast arrives when the upstream answers.                             *)

TTL == 5 * 60

\* `now - createdAt > TTL` invalidates a view; this one lives to the end of
\* the hour it was created in
Fresh_WithinTheHour(view, now) == now \div HOUR = view.createdAt \div HOUR

Fresh(view, now) == now - view.createdAt <= TTL

CachedFor(key) == {v \in cachedView : v.key = key}
FlightFor(key) == {f \in flights : f.key = key}

\* the requests made so far: the answered ones and the waiting ones
Waiting == UNION {f.waiters : f \in flights}
Issued == Len(served) + Cardinality(Waiting)

\* a request that composes for itself though a composition is under way
viewForAdjustment_NoSingleFlight(off, adapter) ==
    LET key == <<off, adapter>>
        id == Issued + 1
        hit == {v \in CachedFor(key) : Fresh(v, clock)}
    IN  /\ req' = [op |-> "viewForAdjustment", off |-> off, adapter |-> adapter, id |-> id]
        /\ IF hit # {}
           THEN LET v == CHOOSE v \in hit : TRUE
                IN  /\ served' = <<[by |-> 0,
                                    createdAt |-> v.createdAt,
                                    key |-> key,
                                    id |-> id,
                                    at |-> clock,
                                    result |-> Ok(v.series),
                                    doneAt |-> id]>> \o served
                    /\ resp' = Ok(v.series)
                    /\ UNCHANGED <<cachedView, flights>>
           ELSE /\ flights' = flights \cup {[store |-> queue,
                                             key |-> key,
                                             waiters |-> {[id |-> id, at |-> clock]},
                                             leader |-> id,
                                             startedAt |-> clock]}
                /\ resp' = [status |-> "pending"]
                /\ UNCHANGED <<cachedView, served>>
        /\ UNCHANGED <<clock, queue, lastRainEpoch, lastRainCount, disk, nextSave, wuLog, boots, geocoder>>

\* viewForAdjustment(coords): the cached series when it is fresh; else the
\* caller waits for the composition under way, or starts one
viewForAdjustment(off, adapter) ==
    LET key == <<off, adapter>>
        id == Issued + 1
        hit == {v \in CachedFor(key) : Fresh(v, clock)}
    IN  /\ req' = [op |-> "viewForAdjustment", off |-> off, adapter |-> adapter, id |-> id]
        /\ IF hit # {}
           THEN LET v == CHOOSE v \in hit : TRUE
                IN  /\ served' = <<[by |-> 0,
                                    createdAt |-> v.createdAt,
                                    key |-> key,
                                    id |-> id,
                                    at |-> clock,
                                    result |-> Ok(v.series),
                                    doneAt |-> id]>> \o served
                    /\ resp' = Ok(v.series)
                    /\ UNCHANGED <<cachedView, flights>>
           ELSE IF FlightFor(key) # {}
           THEN /\ flights' = {IF f.key = key
                               THEN [f EXCEPT !.waiters = f.waiters \cup {[id |-> id, at |-> clock]}]
                               ELSE f : f \in flights}
                /\ resp' = [status |-> "pending"]
                /\ UNCHANGED <<cachedView, served>>
           ELSE /\ flights' = flights \cup {[store |-> queue,
                                             key |-> key,
                                             waiters |-> {[id |-> id, at |-> clock]},
                                             leader |-> id,
                                             startedAt |-> clock]}
                /\ resp' = [status |-> "pending"]
                /\ UNCHANGED <<cachedView, served>>
        /\ UNCHANGED <<clock, queue, lastRainEpoch, lastRainCount, disk, nextSave, wuLog, boots, geocoder>>

RECURSIVE NewestFirst(_)
NewestFirst(waiters) ==
    IF waiters = {} THEN <<>>
    ELSE LET w == CHOOSE w \in waiters : \A x \in waiters : x.id <= w.id
         IN  <<w>> \o NewestFirst(waiters \ {w})

\* what the waiters of a flight are handed when it ends
Answers(f, result, now, done) ==
    LET ws == NewestFirst(f.waiters)
    IN  [i \in 1..Len(ws) |->
            [by |-> f.leader,
             createdAt |-> IF result.status = "ok" THEN now ELSE 0,
             key |-> f.key,
             id |-> ws[i].id,
             at |-> ws[i].at,
             result |-> result,
             doneAt |-> done]]

\* step 8 of the compose algorithm, and "failure leaves the entry absent"
StoreView(views, key, result, now) ==
    {v \in views : v.key # key}
    \cup (IF result.status = "ok"
          THEN {[createdAt |-> now, key |-> key, series |-> result.data]}
          ELSE {})

\* the upstream of a composition under way answers: the composition ends,
\* every waiter gets its result, a series is cached
composed(off, adapter, cloud) ==
    \E f \in FlightFor(<<off, adapter>>) :
        LET result == HybridWateringData(adapter, f.store, f.startedAt, off, cloud)
        IN  /\ served' = Answers(f, result, clock, Issued) \o served
            /\ cachedView' = StoreView(cachedView, f.key, result, clock)
            /\ flights' = flights \ {f}
            /\ req' = [op |-> "composed", off |-> off, adapter |-> adapter, cloud |-> cloud]
            /\ resp' = result
            /\ UNCHANGED <<clock, queue, lastRainEpoch, lastRainCount, disk, nextSave, wuLog, boots, geocoder>>

----------------------------------------------------------------------------
(* The cache: a process that starts with an empty store or with a file of  *)
(* one observation per day, callers in two zones asking for the adjustment *)
(* view while observations arrive, and an upstream that answers or fails   *)

\* one step stays within the lifetime of a view, two steps leave it
CacheStep == (2 * TTL) \div 3

\* the zone of the callers
CacheZone == 2 * HOUR

CacheFiles == {FileOf(FullRun(0)), FileOf(FullRun(HistoryDays))}

InitCache == \E file \in CacheFiles : InitRestored(file)

CacheClouds(now, off) ==
    {CloudDown, CloudDays(StyleOf("OpenMeteo"), now, off, 1, 2, FALSE)}

CacheIngest ==
    /\ Len(wuLog) < CacheMaxIngest
    /\ captureWUStream(DayQuery("solar", NowDate))
CacheAdvance == Advance(CacheStep, CacheMaxSteps * CacheStep)
CacheRequest ==
    /\ Issued < MaxRequests
    /\ viewForAdjustment(CacheZone, "OpenMeteo")
CacheComposed ==
    \E cloud \in CacheClouds(clock, CacheZone) : composed(CacheZone, "OpenMeteo", cloud)

NextCache ==
    \/ CacheIngest
    \/ CacheAdvance
    \/ CacheRequest
    \/ CacheComposed

SpecCache == InitCache /\ [][NextCache]_vars

Answered == {served[i] : i \in DOMAIN served}

Recomposed ==
    \E a \in Answered, b \in Answered :
        /\ a.key = b.key
        /\ a.result.status = "ok"
        /\ b.id > a.doneAt
        /\ b.at - a.createdAt > TTL
        /\ b.by = b.id

----------------------------------------------------------------------------
(* Persistence across process starts: a process that finds no file or a    *)
(* corrupt one, ingests observations with and without rain totals and      *)
(* with a temperature text that parses to Infinity, saves on the timer     *)
(* with writes that succeed or fail, and is stopped, or killed while it    *)
(* writes, and started again                                               *)

PersistStep == SaveInterval

\* a file whose text JSON.parse rejects, or whose value is not an array
CorruptFile == [exists |-> TRUE, valid |-> FALSE, content |-> <<>>]

InitPersist == Init \/ InitRestored(CorruptFile)

PersistQueries ==
    {WUQuery(NowDate, t, Num(50 * Milli), Missing, Missing, dr, Missing) :
        t \in {Num(70 * Milli)}, dr \in {Num(100), Num(150)}}
    \cup {WUQuery(NowDate, Inf, Num(50 * Milli), Missing, Missing, Missing, Missing)}

PersistIngest == \E q \in PersistQueries : captureWUStream(q)
PersistAdvance == Advance(PersistStep, PersistMaxSteps * PersistStep)
PersistSave == \E outcome \in WriteOutcomes : saveQueue(outcome)
PersistRestart ==
    /\ boots < MaxBoots
    /\ \E d \in {0, PersistStep} :
        /\ clock + d <= Epoch0 + PersistMaxSteps * PersistStep
        /\ restart(d)
PersistCrash ==
    /\ boots < MaxBoots
    /\ \E outcome \in WriteOutcomes : crash(outcome, 0)

NextPersist ==
    \/ PersistIngest
    \/ PersistAdvance
    \/ PersistSave
    \/ PersistRestart
    \/ PersistCrash

SpecPersist == InitPersist /\ [][NextPersist]_vars

\* the process was started again in the moment saveQueue had written the
\* file: the timer had just been set anew and the file is the text of the
\* store
RestoredAtOnce ==
    /\ req.op = "restart"
    /\ req.by = 0
    /\ req.timer = clock + SaveInterval
    /\ disk.exists
    /\ disk.valid
    /\ disk.content = JSONstringify(req.store)

\* C23: a store that is persisted and restored with no time between the two
\* is the store that was persisted: the same observations in the same
\* order, every field that was present equal, every absent field absent.
C23_RoundTrip == RestoredAtOnce => queue = req.store

\* the same for a store that holds no value but finite numbers
FiniteStore(q) ==
    \A i \in DOMAIN q :
        \A f \in {"temp", "humidity", "windSpeed", "solarRadiation", "precip"} :
            Has(q[i][f]) => Val(q[i][f]) \notin {Infinity, Null}

RoundTripOfFiniteStore ==
    (RestoredAtOnce /\ FiniteStore(req.store)) => queue = req.store

RoundTripOfFiniteStoreReached ==
    /\ RestoredAtOnce
    /\ FiniteStore(req.store)
    /\ Len(queue) > 1
    /\ \E i \in DOMAIN queue : Has(queue[i].precip) /\ ~Has(queue[i].windSpeed)

\* C24: when the process is killed while saveQueue writes, the file is
\* afterwards the complete file of before or the complete text of the store
\* being saved, never a part of it, and the next start loads it.
C24_AtomicReplace ==
    req.op = "crash"
    => /\ \/ disk = req.file
          \/ disk = [exists |-> TRUE, valid |-> TRUE, content |-> JSONstringify(req.store)]
       /\ disk.exists => queue = Retained(JSONparse(disk.content), clock)

\* a process that has just started on a corrupt file has an empty store and
\* its timer set
CorruptStartsEmpty ==
    (req.op \in {"start", "restart", "crash"} /\ disk.exists /\ ~disk.valid)
    => queue = <<>> /\ nextSave = clock + SaveInterval

\* an ingest is stored whatever the file was; saveQueue keeps the store and
\* sets the next tick whether the write succeeds or not, and a write that
\* succeeds leaves the text of the store
StillWorks ==
    /\ req'.op = "captureWUStream" => Len(queue') = Len(queue) + 1
    /\ req'.op = "saveQueue"
        => /\ queue' = Retained(queue, clock)
           /\ nextSave' = clock' + SaveInterval
           /\ req'.outcome = "written"
               => disk' = [exists |-> TRUE, valid |-> TRUE, content |-> JSONstringify(queue')]

\* C25: a corrupt file at startup leaves the store empty and the process
\* running: ingests are stored and saveQueue runs on its timer; a write
\* that fails leaves the store in memory as it was and the next tick, 30
\* minutes later, writes again.
C25_NeverFatal == []CorruptStartsEmpty /\ [][StillWorks]_vars

\* the process started on a corrupt file, has stored observations since,
\* and its first write has failed: the store is kept and the timer is set
C25_Witness ==
    /\ boots = 0
    /\ req.op = "saveQueue"
    /\ req.outcome = "failed"
    /\ disk = CorruptFile
    /\ Len(queue) > 0
    /\ nextSave = clock + SaveInterval

\* after such a start and a failed write, a later tick has written the store
C25_WrittenLater ==
    /\ boots = 0
    /\ req.op = "saveQueue"
    /\ req.outcome = "written"
    /\ clock = Epoch0 + 2 * SaveInterval
    /\ Len(queue) > 0
    /\ disk.content = JSONstringify(queue)

\* the calls that carried dailyrainin, in the order of the calls
RainCalls == {i \in 1..Len(wuLog) : Carries(i)}

\* the dailyrainin values did not decrease from one carrying call to the next
NonDecreasingRain ==
    \A i, j \in RainCalls : i < j => Call(i).query.dailyrainin.v <= Call(j).query.dailyrainin.v

\* the last dailyrainin value reported, 0 when none was
LastReported == LastCarried(Len(wuLog) + 1)

\* C27: for dailyrainin values of one local day that do not decrease, with
\* the store persisted and restored over a restart between two of the
\* ingests, the interval rain of the stored observations sums to the last
\* dailyrainin value reported.
C27_NoDoubleCount ==
    (NonDecreasingRain /\ Len(queue) = Len(wuLog))
    => SumField(queue, "precip") = LastReported

----------------------------------------------------------------------------
(* The rain of the day buckets: a process that starts with a file of       *)
(* observations at and next to the local midnights of both zones, each     *)
(* with its own amount of rain, and then ingests observations dated now    *)
(* and later than now                                                      *)

BucketStep == 20 * 60

\* the times of the observations of the file, newest first: the local
\* midnights of the zones, the second before each, and times within a day
BucketTimes ==
    <<Epoch0 - 2 * HOUR, Epoch0 - 2 * HOUR - 1,
      Epoch0 - 19 * HOUR, Epoch0 - 19 * HOUR - 1,
      Epoch0 - DAY - 2 * HOUR, Epoch0 - DAY - 2 * HOUR - 1,
      Epoch0 - 2 * DAY - 2 * HOUR, Epoch0 - 2 * DAY - 12 * HOUR>>

\* an upload with every reading but the solar one and a dailyrainin
RainQuery(d, dr) ==
    WUQuery(d, Num(70 * Milli), Num(50 * Milli), Num(3 * Milli), Missing, dr, Missing)

\* the i-th observation of the file: its interval rain is 10 * 2^i
BucketFile ==
    [exists |-> TRUE, valid |-> TRUE,
     content |-> JSONstringify([i \in DOMAIN BucketTimes |->
                    MakeObservation(RainQuery(UtcDate(BucketTimes[i]), Num(10 * 2^i)),
                                    BucketTimes[i], 0)])]

InitBuckets == InitRestored(BucketFile)

BucketIngest ==
    /\ Len(wuLog) < BucketMaxIngest
    /\ \E d \in {NowDate, UtcDate(clock + BucketStep)}, dr \in {Missing, Num(1), Num(3)} :
        captureWUStream(RainQuery(d, dr))
BucketAdvance == Advance(BucketStep, BucketMaxSteps * BucketStep)
BucketRead == \E off \in TZOffsets : getLocalWateringData(off)

NextBuckets ==
    \/ BucketIngest
    \/ BucketAdvance
    \/ BucketRead

SpecBuckets == InitBuckets /\ [][NextBuckets]_vars

\* the day of a bucket, counted back from today
BucketDay(d) == (LocalMidnight(clock, req.off) - d.periodStartTime) \div DAY

\* the interval of the day k days before today: local midnight to now for
\* today, midnight to the next midnight for a past day
InInterval(k, t) ==
    LET mid == LocalMidnight(clock, req.off)
    IN  IF k = 0 THEN t >= mid /\ t <= clock
        ELSE t >= mid - k * DAY /\ t < mid - (k - 1) * DAY

\* the stored observations of that interval
StoredIn(k) ==
    LET In(o) == InInterval(k, o.timestamp)
    IN  SelectSeq(queue, In)

\* the buckets of the answer whose interval holds the time t
BucketsOf(t) == {i \in DOMAIN resp.data : InInterval(BucketDay(resp.data[i]), t)}

\* C28: every bucket of a watering window starts at the local midnight of
\* today or of a past day, and its precip is the sum of the interval rain
\* of exactly the stored observations of its interval; every stored
\* observation is in the interval of at most one bucket, and one with a
\* timestamp later than now is in none.
C28_BucketsPartition ==
    (WindowRead /\ resp.status = "ok") =>
        /\ \A i \in DOMAIN resp.data :
              /\ BucketDay(resp.data[i]) \in 0..7
              /\ resp.data[i].periodStartTime =
                    LocalMidnight(clock, req.off) - BucketDay(resp.data[i]) * DAY
              /\ resp.data[i].precip = SumField(StoredIn(BucketDay(resp.data[i])), "precip")
        /\ \A i, j \in DOMAIN resp.data :
              i # j => resp.data[i].periodStartTime # resp.data[j].periodStartTime
        /\ \A j \in DOMAIN queue :
              /\ Cardinality(BucketsOf(queue[j].timestamp)) <= 1
              /\ queue[j].timestamp > clock => BucketsOf(queue[j].timestamp) = {}

\* a window of today and three past days, read while the store holds rain
\* dated later than now, rain dated exactly now that was ingested ahead of
\* its time, and rain at the local midnight that starts today
C28_Witness ==
    /\ WindowRead
    /\ resp.status = "ok"
    /\ Len(resp.data) >= 3
    /\ \E j \in DOMAIN queue :
          queue[j].timestamp > clock /\ Has(queue[j].precip) /\ Val(queue[j].precip) > 0
    /\ \E i \in DOMAIN wuLog :
          /\ wuLog[i].query.dateutc.k = "utc"
          /\ wuLog[i].obs.timestamp = clock
          /\ Has(wuLog[i].obs.precip) /\ Val(wuLog[i].obs.precip) > 0
    /\ \E j \in DOMAIN queue :
          /\ queue[j].timestamp = LocalMidnight(clock, req.off)
          /\ Has(queue[j].precip)

----------------------------------------------------------------------------
(* Geocoder (part_001): getLocation with its cache; geocodeLocation is     *)
(* abstract and asynchronous, so calls for a name overlap and each returns *)
(* what the service behind it answers                                      *)

\* ErrorCode.NoLocationFound
NoLocationFound == "NoLocationFound"
\* any other error of geocodeLocation
OtherError == "OtherError"

\* GeoCoordinates: [ latitude, longitude ]
Coordinates == {<<42, 0 - 71>>, <<43, 0 - 71>>}

\* null as a value of the Map
NullCoordinates == <<>>

\* what a geocodeLocation call can end with
GeocodeOutcomes ==
    {Ok(c) : c \in Coordinates} \cup {Throw(NoLocationFound), Throw(OtherError)}

\* getLocation calls begun so far
GeoBegun == Cardinality(geoCalls) + Len(geoLog)

\* getLocation up to its return or its await (part_001 59-70)
getLocation(location) ==
    /\ req' = [op |-> "getLocation", location |-> location]
    /\ IF Has(geoCache[location])
       THEN LET coords == Val(geoCache[location])
                result == IF coords = NullCoordinates THEN Throw(NoLocationFound) ELSE Ok(coords)
            IN  /\ resp' = result
                /\ geoLog' = Append(geoLog, [result |-> result,
                                             location |-> location,
                                             called |-> FALSE,
                                             begun |-> Len(geoLog)])
                /\ UNCHANGED <<geoCache, geoCalls>>
       ELSE /\ resp' = [status |-> "pending"]
            /\ geoCalls' = geoCalls \cup {[id |-> GeoBegun + 1,
                                           location |-> location,
                                           begun |-> Len(geoLog)]}
            /\ UNCHANGED <<geoCache, geoLog>>
    /\ UNCHANGED <<clock, queue, lastRainEpoch, lastRainCount, disk, nextSave, wuLog,
                   composer, boots>>

\* geocodeLocation returns or throws, and getLocation goes on after its
\* await (part_001 70-80)
geocoded(call, result) ==
    /\ call \in geoCalls
    /\ geoCalls' = geoCalls \ {call}
    /\ geoCache' =
          CASE result.status = "ok" -> [geoCache EXCEPT ![call.location] = Some(result.data)]
            [] result.code = NoLocationFound -> [geoCache EXCEPT ![call.location] = Some(NullCoordinates)]
            [] OTHER -> geoCache
    /\ geoLog' = Append(geoLog, [result |-> result,
                                 location |-> call.location,
                                 called |-> TRUE,
                                 begun |-> call.begun])
    /\ req' = [op |-> "geocoded", location |-> call.location]
    /\ resp' = result
    /\ UNCHANGED <<clock, queue, lastRainEpoch, lastRainCount, disk, nextSave, wuLog,
                   composer, boots>>

GeoRequest ==
    /\ GeoBegun < GeoMaxCalls
    /\ \E location \in Locations : getLocation(location)
GeoAnswer == \E call \in geoCalls, result \in GeocodeOutcomes : geocoded(call, result)

NextGeo ==
    \/ GeoRequest
    \/ GeoAnswer

SpecGeo == Init /\ [][NextGeo]_vars

\* the getLocation call that ended j-th began after the one that ended i-th
\* had ended, and was for the same name
LaterCall(i, j) ==
    /\ geoLog[j].location = geoLog[i].location
    /\ geoLog[j].begun >= i

\* C29: once geocodeLocation has returned coordinates for a name or has
\* failed with NoLocationFound, every later getLocation for that name
\* ends the same way without calling geocodeLocation; after any other
\* failure the next getLocation for the name calls geocodeLocation again.
C29_CachedPerLocation ==
    \A i, j \in DOMAIN geoLog :
        (geoLog[i].called /\ LaterCall(i, j)) =>
            IF geoLog[i].result.code = OtherError
            THEN (\A k \in DOMAIN geoLog : LaterCall(i, k) => k >= j) => geoLog[j].called
            ELSE ~geoLog[j].called /\ geoLog[j].result = geoLog[i].result

----------------------------------------------------------------------------
(* LocalNormalizer.normalizeWateringData                                   *)

\* converters: values are thousandths
celsiusToFahrenheit(c) == (c * 9) \div 5 + 32 * Milli
mmToInches(mm) == (mm * 10) \div 254
msToMph(ms) == (ms * 223694) \div 100000
wpm2ToKwh(wpm2) == wpm2 \div 1000

\* BaseNormalizer.normalizeTimestamp: the local midnight of the day of t
normalizeTimestamp(t, off) == LocalMidnight(t, off)

\* `x ? ... : undefined` of an optional number: undefined and 0 are falsy
Truthy(x) == Has(x) /\ Val(x) # 0

\* one element of the map of LocalNormalizer.ts 33-86
NormalizeDay(data, off, isMetric) ==
    [timestamp |-> normalizeTimestamp(data.periodStartTime, off),
     weatherProvider |-> "Local",
     temp_f |-> IF isMetric THEN celsiusToFahrenheit(data.temp) ELSE data.temp,
     humidity_pct |-> data.humidity,
     precip_in |-> IF isMetric THEN mmToInches(data.precip) ELSE data.precip,
     min_temp_f |-> IF Truthy(data.minTemp)
                    THEN IF isMetric THEN Some(celsiusToFahrenheit(Val(data.minTemp)))
                         ELSE data.minTemp
                    ELSE Absent,
     max_temp_f |-> IF Truthy(data.maxTemp)
                    THEN IF isMetric THEN Some(celsiusToFahrenheit(Val(data.maxTemp)))
                         ELSE data.maxTemp
                    ELSE Absent,
     wind_mph |-> IF Truthy(data.windSpeed)
                  THEN IF isMetric THEN Some(msToMph(Val(data.windSpeed)))
                       ELSE data.windSpeed
                  ELSE Absent,
     solar_radiation_kwh |-> IF Truthy(data.solarRadiation)
                             THEN IF isMetric THEN Some(wpm2ToKwh(Val(data.solarRadiation)))
                                  ELSE data.solarRadiation
                             ELSE Absent]

\* BaseNormalizer.removeDuplicates: the first element of each timestamp
removeDuplicates(data) ==
    LET First(i) == \A j \in 1..(i - 1) : data[j].timestamp # data[i].timestamp
        kept == SelectSeq([i \in DOMAIN data |-> i], First)
    IN  [k \in DOMAIN kept |-> data[kept[k]]]

\* BaseNormalizer.sortReverseChronological: a stable sort on
\* b.timestamp - a.timestamp
RECURSIVE InsertReverseChronological(_, _)
InsertReverseChronological(sorted, e) ==
    IF sorted = <<>> THEN <<e>>
    ELSE IF Head(sorted).timestamp >= e.timestamp
         THEN <<Head(sorted)>> \o InsertReverseChronological(Tail(sorted), e)
         ELSE <<e>> \o sorted

RECURSIVE sortReverseChronological(_)
sortReverseChronological(data) ==
    IF data = <<>> THEN <<>>
    ELSE InsertReverseChronological(
             sortReverseChronological(SubSeq(data, 1, Len(data) - 1)), data[Len(data)])

\* LocalNormalizer.normalizeWateringData (LocalNormalizer.ts 27-97)
normalizeWateringData(rawData, off, units) ==
    LET normalized == [i \in DOMAIN rawData |->
                          NormalizeDay(rawData[i], off, units = "metric")]
    IN  sortReverseChronological(removeDuplicates(normalized))

\* the days of an input: at and after a midnight of the zones, on two
\* calendar days, with the optional fields absent, 0 and positive
NormTimes == {Epoch0, Epoch0 + 6 * HOUR, Epoch0 - DAY + 6 * HOUR}
NormDays ==
    {[humidity |-> 50 * Milli,
      solarRadiation |-> sr,
      temp |-> 20 * Milli,
      windSpeed |-> w,
      precip |-> 0,
      periodStartTime |-> t,
      minTemp |-> lo,
      maxTemp |-> Some(25 * Milli)] :
        t \in NormTimes,
        lo \in {Absent, Some(0), Some(15 * Milli)},
        w \in {Some(0), Some(3 * Milli)},
        sr \in {Absent, Some(5 * Milli)}}

NormInputs == UNION {[1..n -> NormDays] : n \in 1..NormMaxDays}

\* the process with an input at hand for the normalizer
InitNorm ==
    /\ \E rawData \in NormInputs, off \in TZOffsets, units \in {"imperial", "metric"} :
          req = [op |-> "input", off |-> off, rawData |-> rawData, units |-> units]
    /\ clock = Epoch0
    /\ queue = <<>>
    /\ lastRainEpoch = 0
    /\ lastRainCount = 0
    /\ disk = [exists |-> FALSE, valid |-> TRUE, content |-> <<>>]
    /\ nextSave = Epoch0 + SaveInterval
    /\ resp = [status |-> "none"]
    /\ wuLog = <<>>
    /\ InitComposer
    /\ boots = 0
    /\ InitGeocoder

\* the call of the normalizer on the input at hand
normalize ==
    /\ req.op = "input"
    /\ req' = [req EXCEPT !.op = "normalizeWateringData"]
    /\ resp' = Ok(normalizeWateringData(req.rawData, req.off, req.units))
    /\ UNCHANGED <<clock, queue, lastRainEpoch, lastRainCount, disk, nextSave, wuLog,
                   composer, boots, geocoder>>

NextNorm == normalize

SpecNorm == InitNorm /\ [][NextNorm]_vars

\* the first day of the input that maps to the local midnight ts
FirstAt(ts) ==
    LET At(k) == normalizeTimestamp(req.rawData[k].periodStartTime, req.off) = ts
        k0 == CHOOSE k \in DOMAIN req.rawData :
                  At(k) /\ \A j \in 1..(k - 1) : ~At(j)
    IN  req.rawData[k0]

\* an optional field of the input as the output has to carry it
Carried(x, Convert(_)) ==
    IF ~Has(x) THEN Absent
    ELSE IF req.units = "metric" THEN Some(Convert(Val(x))) ELSE x

\* C30: every optional field that an input day has is in the matching
\* output field, for every number including 0; the output's timestamps are
\* strictly decreasing, and each output day is made from the first input
\* day that maps to its local midnight.
C30_CarriesOptionalFields ==
    req.op = "normalizeWateringData" =>
        /\ \A i, j \in DOMAIN resp.data :
              i < j => resp.data[i].timestamp > resp.data[j].timestamp
        /\ \A k \in DOMAIN req.rawData :
              \E i \in DOMAIN resp.data :
                  resp.data[i].timestamp =
                      normalizeTimestamp(req.rawData[k].periodStartTime, req.off)
        /\ \A i \in DOMAIN resp.data :
              LET out == resp.data[i]
                  day == FirstAt(out.timestamp)
              IN  /\ \E k \in DOMAIN req.rawData :
                        normalizeTimestamp(req.rawData[k].periodStartTime, req.off)
                            = out.timestamp
                  /\ out.min_temp_f = Carried(day.minTemp, celsiusToFahrenheit)
                  /\ out.max_temp_f = Carried(day.maxTemp, celsiusToFahrenheit)
                  /\ out.wind_mph = Carried(day.windSpeed, msToMph)
                  /\ out.solar_radiation_kwh = Carried(day.solarRadiation, wpm2ToKwh)

\* C30 without the number 0: the order, the first-kept days and the
\* optional fields other than 0 are as stated
NormalizedButForZero ==
    req.op = "normalizeWateringData" =>
        /\ \A i, j \in DOMAIN resp.data :
              i < j => resp.data[i].timestamp > resp.data[j].timestamp
        /\ \A i \in DOMAIN resp.data :
              LET out == resp.data[i]
                  day == FirstAt(out.timestamp)
              IN  /\ Truthy(day.minTemp)
                        => out.min_temp_f = Carried(day.minTemp, celsiusToFahrenheit)
                  /\ Truthy(day.windSpeed) => out.wind_mph = Carried(day.windSpeed, msToMph)
                  /\ Truthy(day.solarRadiation)
                        => out.solar_radiation_kwh = Carried(day.solarRadiation, wpm2ToKwh)
                  /\ out.max_temp_f = Carried(day.maxTemp, celsiusToFahrenheit)

====
